---- MODULE Spec2Model ----
(***************************************************************************)
(* A model of the AlphaRevolve evaluation core:                            *)
(*   - ProgramDatabase  (candidate store)          SpecDB                  *)
(*   - BenchmarkRunner  (test-suite evaluation)    SpecBench               *)
(*   - safeEval         (worker-thread evaluation) SpecEval                *)
(* Each component has its own specification; the variables of the other    *)
(* components stay at their initial values.                                *)
(***************************************************************************)
EXTENDS Integers, Sequences, FiniteSets, TLC

VARIABLES
    programs,        \* ProgramDatabase.programs: the Map, in insertion order
    bestProgramId,   \* ProgramDatabase.bestProgramId (NoId = null)
    loaded,          \* history: the instance was produced by loadFromFile
    nextId,          \* the monotonic component of generated ids
    ret,             \* the value returned by the last ProgramDatabase call
    targetFile,      \* on-disk content of options.targetFilePath (NoFile = absent)
    originalContent, \* BenchmarkRunner.originalContent (NullContent = null)
    metricsFile,     \* on-disk state of the metrics file named for the last evaluate call
    brPc,            \* position of the evaluate call in flight
    brPassed,        \* value runTests resolved with
    brOutcome,       \* how the evaluate promise settled, until the next event
    brPre,           \* history: targetFile when the last evaluate was called
    brOrigAtStart,   \* history: originalContent when the last evaluate was called
    brEvals,         \* evaluate calls made so far
    brFault,         \* history: the steps of the last evaluate that failed
    brCall,          \* history: the candidate, the steps taken and the metrics paths of evaluate
    calls,           \* safeEval: per call, its promise, worker, timer, temp file
    heap,            \* addProgram's fitness argument: the nested objects, by address
    callerFitness,   \* the fitness object the caller of addProgram holds
    storedFitness,   \* the fitness object of the candidate addProgram stored
    storedAtAdd,     \* history: the content of storedFitness when it was stored
    disk,            \* the document saveToFile wrote
    saved,           \* history: the store as it was when saveToFile wrote it
    metricsData,     \* the parsed metrics file: one entry per test, in file order
    detailedMetrics, \* the performanceMetrics evaluate aggregated from it
    runners,         \* BenchmarkRunner instances evaluating side by side
    fs,              \* the files they share: content by path
    run,             \* AlphaRevolve.run: configuration, loop position, outcome
    llm              \* LlmService.generateCode: the call in progress

dbVars == <<programs, bestProgramId, loaded, nextId, ret>>

benchVars == <<targetFile, originalContent, metricsFile, brPc, brPassed, brOutcome,
               brPre, brOrigAtStart, brEvals, brFault, brCall>>

evalVars == <<calls>>

copyVars == <<heap, callerFitness, storedFitness, storedAtAdd>>

fileVars == <<disk, saved>>

restVars == <<metricsData, detailedMetrics, runners, fs, run, llm>>

vars == <<dbVars, benchVars, evalVars, copyVars, fileVars, restVars>>

-----------------------------------------------------------------------------
(* Bounds of the model *)

MaxPrograms == 3     \* candidates held by a store
MaxLineage == 3      \* passes of the getLineage loop that are followed
MaxDocLen == 2       \* programs in a persisted document
MaxFiltered == 1     \* candidates held by a store that is filtered
MaxEvals == 3        \* BenchmarkRunner.evaluate calls per run
NumCalls == 1        \* safeEval calls in flight together
MaxTests == 2        \* entries (tests) of a metrics file
MaxIterations == 2   \* config.iterations of a run
MaxRetries == 2      \* options.maxRetries given to a run or an LlmService

-----------------------------------------------------------------------------
(* ProgramDatabase *)

NoId == 0                          \* null / undefined id
Scores == {-1, 0, 1, 2}            \* finalScore values (negative, zero, positive)
Iterations == {0}                  \* iteration numbers handed to addProgram
DocIds == {11, 12}                 \* ids occurring in persisted documents
DocBestIds == {NoId, 11, 12, 13}   \* metadata.bestProgramId: absent, or any id
TopNs == {-1, 0, 1, 2, 3}          \* arguments of sampleProgram

NoFeedback == "<undefined>"        \* feedback not given

\* new Date(): the clock reading, in the ticks that also make up the id
Date(ms) == [type |-> "Date", ms |-> ms]

\* the candidate object addProgram builds; the fitness scores are kept flat
CandidateSolution(id, solution, quality, efficiency, score, it, parent, feedback) ==
    [id |-> id, solution |-> solution, qualityScore |-> quality,
     efficiencyScore |-> efficiency, finalScore |-> score,
     iteration |-> it, parent |-> parent, timestamp |-> Date(id),
     feedback |-> feedback]

Candidate(id, score, iteration, parent) ==
    CandidateSolution(id, "s", 0, 0, score, iteration, parent, NoFeedback)

Ids(progs) == {progs[i].id : i \in 1..Len(progs)}

MapSet_ByIteration(progs, cand) ==
    IF \E i \in 1..Len(progs) : progs[i].iteration = cand.iteration
    THEN [i \in 1..Len(progs) |->
            IF progs[i].iteration = cand.iteration THEN cand ELSE progs[i]]
    ELSE Append(progs, cand)

\* Map.prototype.set: an existing key keeps its position, a new key is appended
MapSet(progs, cand) ==
    IF cand.id \in Ids(progs)
    THEN [i \in 1..Len(progs) |-> IF progs[i].id = cand.id THEN cand ELSE progs[i]]
    ELSE Append(progs, cand)

\* Map.prototype.get, as a sequence of zero or one candidates
getProgram(progs, id) ==
    IF id \in Ids(progs)
    THEN <<progs[CHOOSE i \in 1..Len(progs) : progs[i].id = id]>>
    ELSE <<>>

getAllPrograms(progs) == progs

\* x || 0 on a number
OrZero(x) == IF x = 0 THEN 0 ELSE x

\* Array.prototype.sort((a, b) => b.fitness.finalScore - a.fitness.finalScore):
\* a stable sort, descending by finalScore
InsertDesc(sorted, x) ==
    LET k == Cardinality({i \in 1..Len(sorted) : sorted[i].finalScore >= x.finalScore})
    IN  SubSeq(sorted, 1, k) \o <<x>> \o SubSeq(sorted, k + 1, Len(sorted))

RECURSIVE SortDesc(_)
SortDesc(s) ==
    IF s = <<>> THEN <<>>
    ELSE InsertDesc(SortDesc(SubSeq(s, 1, Len(s) - 1)), s[Len(s)])

Slice0_Inclusive(s, end) ==
    SubSeq(s, 1, IF end + 1 > Len(s) THEN Len(s) ELSE IF end + 1 < 0 THEN 0 ELSE end + 1)

\* Array.prototype.slice(0, end)
Slice0(s, end) ==
    LET e == IF end < 0 THEN (IF Len(s) + end < 0 THEN 0 ELSE Len(s) + end)
             ELSE IF end > Len(s) THEN Len(s) ELSE end
    IN  SubSeq(s, 1, e)

Min(a, b) == IF a < b THEN a ELSE b

ShouldUpdateBest_NoCompare(progs, best, score) ==
    best = NoId \/ getProgram(progs, best) = <<>>

ShouldUpdateBest_OnTies(progs, best, score) ==
    \/ best = NoId
    \/ getProgram(progs, best) = <<>>
    \/ score >= OrZero(getProgram(progs, best)[1].finalScore)

\* the condition under which addProgram moves bestProgramId to the new id
ShouldUpdateBest(progs, best, score) ==
    \/ best = NoId
    \/ getProgram(progs, best) = <<>>
    \/ score > OrZero(getProgram(progs, best)[1].finalScore)

getBestProgram(progs, best) ==
    IF Len(progs) = 0 THEN <<>>
    ELSE IF best # NoId /\ best \in Ids(progs) THEN getProgram(progs, best)
    ELSE SubSeq(SortDesc(getAllPrograms(progs)), 1, 1)

topCandidates_NoFilter(progs, topN) ==
    LET sorted == SortDesc(getAllPrograms(progs))
    IN  Slice0(sorted, Min(topN, Len(sorted)))

topCandidates(progs, topN) ==
    LET sorted == SortDesc(SelectSeq(getAllPrograms(progs), LAMBDA x : x.finalScore > 0))
    IN  Slice0(sorted, Min(topN, Len(sorted)))

\* every value sampleProgram(topN) can return (Math.random() in [0, 1))
sampleProgram(progs, topN) ==
    IF Len(progs) = 0 THEN {<<>>}
    ELSE LET top == topCandidates(progs, topN)
         IN  IF Len(top) = 0 THEN {<<>>} ELSE {<<top[i]>> : i \in 1..Len(top)}

toISOString_Seconds(d) == [type |-> "string", ms |-> (d.ms \div 2) * 2]

\* Date.prototype.toISOString (through Date.prototype.toJSON): the instant as
\* text, to the millisecond
toISOString(d) == [type |-> "string", ms |-> d.ms]

\* the keys JSON.stringify leaves out of a candidate: those holding undefined
UndefinedKeys(c) ==
    {k \in {"parent"} : c.parent = NoId} \cup {k \in {"feedback"} : c.feedback = NoFeedback}

\* JSON.stringify of a candidate: a Date becomes its ISO text, a key holding
\* undefined is omitted
JsonCandidate(c) ==
    [k \in (DOMAIN c) \ UndefinedKeys(c) |->
        IF k = "timestamp" /\ c[k].type = "Date" THEN toISOString(c[k]) ELSE c[k]]

\* a candidate object made by JSON.parse, as its readers see it: reading a key
\* that is not there gives undefined
ParsedCandidate(obj) ==
    [k \in (DOMAIN obj) \cup {"parent", "feedback"} |->
        IF k \in DOMAIN obj THEN obj[k]
        ELSE IF k = "parent" THEN NoId ELSE NoFeedback]

\* toJSON(): the object handed to JSON.stringify
toJSON(progs, best) ==
    [version |-> "1.1", programs |-> getAllPrograms(progs),
     metadata |-> [bestProgramId |-> best]]

\* JSON.stringify(data, null, 2)
JsonStringify(data) ==
    [data EXCEPT !.programs = [i \in 1..Len(@) |-> JsonCandidate(@[i])]]

GhostId == 13                      \* an id that no candidate of the store has

getLineage_Push(progs, id) ==
    LET RECURSIVE Walk(_, _)
        Walk(currentId, lineage) ==
            IF currentId = NoId \/ getProgram(progs, currentId) = <<>> THEN lineage
            ELSE Walk(getProgram(progs, currentId)[1].parent,
                      lineage \o getProgram(progs, currentId))
    IN  Walk(id, <<>>)

getLineage_NoBreak(progs, id) ==
    LET RECURSIVE Walk(_, _)
        Walk(currentId, lineage) ==
            IF currentId = NoId THEN lineage
            ELSE IF getProgram(progs, currentId) = <<>>
                 THEN <<Candidate(NoId, 0, 0, NoId)>> \o lineage
            ELSE Walk(getProgram(progs, currentId)[1].parent,
                      getProgram(progs, currentId) \o lineage)
    IN  Walk(id, <<>>)

\* getLineage(id): while (currentId) { candidate = programs.get(currentId);
\* if (!candidate) break; lineage.unshift(candidate); currentId = candidate.parent }
getLineage(progs, id) ==
    LET RECURSIVE Walk(_, _)
        Walk(currentId, lineage) ==
            IF currentId = NoId THEN lineage
            ELSE IF getProgram(progs, currentId) = <<>> THEN lineage
            ELSE Walk(getProgram(progs, currentId)[1].parent,
                      getProgram(progs, currentId) \o lineage)
    IN  Walk(id, <<>>)

\* FilterOptions: an option that is not given is <<>>, one that is given is
\* the sequence of its value (iterationRange: <<min, max>>); the criteria
\* tried give no predicate, one predicate, or all six
FilterOptions ==
    {o \in [minQualityScore : {<<>>, <<1>>}, minEfficiencyScore : {<<>>, <<1>>},
            minFinalScore : {<<>>, <<1>>}, iterationRange : {<<>>, <<1, 1>>},
            hasParent : {<<>>, <<TRUE>>, <<FALSE>>},
            hasFeedback : {<<>>, <<TRUE>>, <<FALSE>>}] :
        Cardinality({k \in DOMAIN o : o[k] # <<>>}) \in {0, 1, 6}}

hasFeedback_Defined(candidate) == candidate.feedback # NoFeedback

\* Boolean(candidate.feedback && candidate.feedback.length > 0)
hasFeedback(candidate) ==
    candidate.feedback # NoFeedback /\ candidate.feedback # ""

\* the callback of filterPrograms returns false
Rejected_ByFilter(candidate, options) ==
    \/ /\ options.minQualityScore # <<>>
       /\ candidate.qualityScore < options.minQualityScore[1]
    \/ /\ options.minEfficiencyScore # <<>>
       /\ candidate.efficiencyScore < options.minEfficiencyScore[1]
    \/ /\ options.minFinalScore # <<>>
       /\ candidate.finalScore < options.minFinalScore[1]
    \/ /\ options.iterationRange # <<>>
       /\ \/ candidate.iteration < options.iterationRange[1]
          \/ candidate.iteration > options.iterationRange[2]
    \/ /\ options.hasParent # <<>>
       /\ (candidate.parent # NoId) # options.hasParent[1]
    \/ /\ options.hasFeedback # <<>>
       /\ hasFeedback(candidate) # options.hasFeedback[1]

filterPrograms(progs, options) ==
    SelectSeq(getAllPrograms(progs), LAMBDA c : ~Rejected_ByFilter(c, options))

\* the persisted documents loadFromFile is given
DocPrograms ==
    UNION {[1..n -> {ParsedCandidate(JsonCandidate(Candidate(id, s, 0, NoId)))
                     : id \in DocIds, s \in Scores}]
           : n \in 0..MaxDocLen}

RECURSIVE LoadPrograms(_, _)
LoadPrograms(acc, doc) ==
    IF doc = <<>> THEN acc
    ELSE LoadPrograms(MapSet(acc, Head(doc)), Tail(doc))

\* bestProgramId after loadFromFile
LoadedBestId(progs, docBest) ==
    IF docBest # NoId THEN docBest
    ELSE LET b == getBestProgram(progs, NoId)
         IN  IF b # <<>> THEN b[1].id ELSE NoId

NoFile == "<absent>"
NullContent == "<null>"
Solutions == {"candA", "candB"}     \* candidate sources handed to evaluate
Originals == {"orig", "edited"}     \* contents others give the target file
ExecutionTimes == {0, 1000}        \* Date.now() - startTime, in milliseconds

\* scores are rationals <<numerator, denominator>>
qualityScore(passed) == IF passed THEN <<1, 1>> ELSE <<0, 1>>
efficiencyScore_Unconditional(passed, executionTime) ==
    <<1000, 1000 + executionTime>>

efficiencyScore(passed, executionTime) ==
    IF passed THEN <<1000, 1000 + executionTime>> ELSE <<0, 1>>
finalScore_Swapped(q, e) == <<3 * q[1] * e[2] + 7 * e[1] * q[2], 10 * q[2] * e[2]>>

\* (qualityScore * 0.7) + (efficiencyScore * 0.3)
finalScore(q, e) == <<7 * q[1] * e[2] + 3 * e[1] * q[2], 10 * q[2] * e[2]>>

FitnessOf(passed, executionTime) ==
    LET q == qualityScore(passed)
        e == efficiencyScore(passed, executionTime)
    IN  [qualityScore |-> q, efficiencyScore |-> e, finalScore |-> finalScore(q, e)]

\* the fitness returned by the catch block
ZeroFitness == [qualityScore |-> <<0, 1>>, efficiencyScore |-> <<0, 1>>,
                finalScore |-> <<0, 1>>]

NoOutcome == [kind |-> "none", passed |-> FALSE, fitness |-> ZeroFitness, time |-> <<>>]

QuietBench ==
    /\ targetFile = "orig"
    /\ originalContent = NullContent
    /\ metricsFile = "absent"
    /\ brPc = "idle"
    /\ brPassed = FALSE
    /\ brOutcome = NoOutcome
    /\ brPre = NoFile
    /\ brOrigAtStart = NullContent
    /\ brEvals = 0
    /\ brFault = {}
    /\ brCall = [solution |-> NoFile, steps |-> <<>>, env |-> 0, paths |-> <<>>]

Calls == 1..NumCalls

Pending == [state |-> "pending", reason |-> "", text |-> <<>>]

\* a safeEval call that has not been made yet
NewCall ==
    [started |-> FALSE, behaviour |-> "returns", code |-> <<>>,
     trackDetailedStats |-> TRUE, cleanupFiles |-> TRUE,
     outcome |-> Pending, file |-> FALSE, timer |-> "unset", worker |-> "none",
     queue |-> <<>>, terminateCalled |-> FALSE, posted |-> FALSE, lateMsg |-> FALSE,
     workerPath |-> 0]

QuietEval == calls = [c \in Calls |-> NewCall]

\* addresses of the nested objects of a fitness argument
NoRef == 0                          \* property absent
PmRef == 1                          \* the caller's performanceMetrics object
DetailsRef == 2                     \* another nested metric object of the caller
CopyRef == 3                        \* the object made by JSON.parse(JSON.stringify(..))
MetricValues == {"1.5", "2.5", "NaN"}   \* content of a nested metric object

NoFitness == [finalScore |-> 0, performanceMetrics |-> NoRef, details |-> NoRef]

QuietCopy ==
    /\ heap = [a \in {PmRef, DetailsRef, CopyRef} |-> "1.5"]
    /\ callerFitness = NoFitness
    /\ storedFitness = NoFitness
    /\ storedAtAdd = <<>>

NoDocument == <<>>                  \* the file has not been written

QuietFile ==
    /\ disk = NoDocument
    /\ saved = <<>>

QuietRest ==
    /\ metricsData = <<>>
    /\ detailedMetrics = <<>>
    /\ runners = <<>>
    /\ fs = <<>>
    /\ run = <<>>
    /\ llm = <<>>

QuietDB ==
    /\ programs = <<>>
    /\ bestProgramId = NoId
    /\ loaded = FALSE
    /\ nextId = 1
    /\ ret = [op |-> "none", arg |-> 0, val |-> <<>>]

InitDB ==
    /\ QuietBench
    /\ QuietEval
    /\ QuietCopy
    /\ QuietFile
    /\ QuietRest
    /\ programs = <<>>
    /\ bestProgramId = NoId
    /\ loaded = FALSE
    /\ nextId = 1
    /\ ret = [op |-> "none", arg |-> 0, val |-> <<>>]

\* addProgram(solution, fitness, iteration, parentId, feedback) with its
\* arguments drawn from the given sets; fitness is <<qualityScore,
\* efficiencyScore, finalScore>>
AddProgramWith(limit, fitnesses, iterations, parents, feedbacks) ==
    /\ Len(programs) < limit
    /\ \E fitness \in fitnesses, it \in iterations, parent \in parents,
          feedback \in feedbacks :
         LET cand == CandidateSolution(nextId, "s", fitness[1], fitness[2],
                                       fitness[3], it, parent, feedback)
             progs == MapSet(programs, cand)
         IN  /\ programs' = progs
             /\ bestProgramId' = IF ShouldUpdateBest(progs, bestProgramId, fitness[3])
                                 THEN cand.id ELSE bestProgramId
             /\ ret' = [op |-> "addProgram", arg |-> 0, val |-> <<cand>>]
    /\ nextId' = nextId + 1
    /\ UNCHANGED loaded
    /\ UNCHANGED <<benchVars, evalVars, copyVars, fileVars, restVars>>

AddProgram ==
    AddProgramWith(MaxPrograms, {<<0, 0, score>> : score \in Scores}, Iterations,
                   {NoId} \cup Ids(programs), {NoFeedback})

GetBestProgram ==
    /\ ret' = [op |-> "getBestProgram", arg |-> 0,
               val |-> getBestProgram(programs, bestProgramId)]
    /\ UNCHANGED <<programs, bestProgramId, loaded, nextId>>
    /\ UNCHANGED <<benchVars, evalVars, copyVars, fileVars, restVars>>

SampleProgram ==
    /\ \E topN \in TopNs :
         \E r \in sampleProgram(programs, topN) :
             ret' = [op |-> "sampleProgram", arg |-> topN, val |-> r]
    /\ UNCHANGED <<programs, bestProgramId, loaded, nextId>>
    /\ UNCHANGED <<benchVars, evalVars, copyVars, fileVars, restVars>>

LoadFromFile ==
    /\ ~loaded
    /\ programs = <<>>
    /\ \E doc \in DocPrograms, docBest \in DocBestIds :
         LET progs == LoadPrograms(<<>>, doc)
         IN  /\ programs' = progs
             /\ bestProgramId' = LoadedBestId(progs, docBest)
    /\ loaded' = TRUE
    /\ ret' = [op |-> "loadFromFile", arg |-> 0, val |-> <<>>]
    /\ UNCHANGED nextId
    /\ UNCHANGED <<benchVars, evalVars, copyVars, fileVars, restVars>>

NextDB ==
    \/ AddProgram
    \/ GetBestProgram
    \/ SampleProgram
    \/ LoadFromFile

SpecDB == InitDB /\ [][NextDB]_vars

-----------------------------------------------------------------------------
(* Properties of ProgramDatabase *)

Stored(progs) == {progs[i] : i \in 1..Len(progs)}

\* r (zero or one candidates) is a stored candidate of maximal finalScore,
\* and is empty exactly when the store is empty
IsBestOf(r, progs) ==
    /\ (r = <<>>) <=> (progs = <<>>)
    /\ r # <<>> =>
         /\ r[1] \in Stored(progs)
         /\ \A c \in Stored(progs) : r[1].finalScore >= c.finalScore

\* C1: in a store built from empty by addProgram calls only, getBestProgram()
\* returns null iff the store is empty, and otherwise a stored candidate whose
\* finalScore is >= the finalScore of every stored candidate.
C1_BestIsMax ==
    ~loaded =>
        /\ IsBestOf(getBestProgram(programs, bestProgramId), programs)
        /\ ret.op = "getBestProgram" => IsBestOf(ret.val, programs)

\* C1 witness: scores inserted in increasing order (the 0.5 then 0.9 case) and
\* getBestProgram() has returned the later, higher candidate.
C1_Witness ==
    /\ ~loaded
    /\ ret.op = "getBestProgram"
    /\ Len(programs) >= 2
    /\ programs[1].finalScore < programs[2].finalScore
    /\ programs[1].finalScore > 0
    /\ ret.val = <<programs[2]>>

\* C31: in a store built by addProgram calls only, the candidate reached
\* through the cached bestProgramId is the candidate the fallback full scan
\* (stable descending sort by finalScore, first element) returns: with ties it
\* is the earliest-inserted candidate of maximal finalScore.
C31_CachedBestRefinesScan ==
    ~loaded =>
        /\ getBestProgram(programs, bestProgramId) = getBestProgram(programs, NoId)
        /\ ret.op = "getBestProgram" => ret.val = getBestProgram(programs, NoId)
        /\ \A i \in 1..Len(programs) :
              (\A j \in 1..Len(programs) :
                   /\ programs[i].finalScore >= programs[j].finalScore
                   /\ j < i => programs[i].finalScore > programs[j].finalScore)
              => bestProgramId = programs[i].id

\* C31 witness: a lower candidate, then two candidates tied at the maximum;
\* getBestProgram() has returned the earlier of the two.
C31_Witness ==
    /\ ~loaded
    /\ ret.op = "getBestProgram"
    /\ Len(programs) = 3
    /\ programs[1].finalScore < programs[2].finalScore
    /\ programs[2].finalScore = programs[3].finalScore
    /\ ret.val = <<programs[2]>>
    /\ bestProgramId = programs[2].id

\* C6: sampleProgram(topN) never returns a candidate with finalScore <= 0, and
\* returns nothing when no stored candidate has finalScore > 0 (the empty store
\* included).
C6_SampleOnlyPositive ==
    ret.op = "sampleProgram" =>
        /\ ret.val # <<>> =>
             /\ ret.val[1] \in Stored(programs)
             /\ ret.val[1].finalScore > 0
        /\ (\A c \in Stored(programs) : c.finalScore <= 0) => ret.val = <<>>

\* C6 witness: the store holds a non-positive and a positive candidate and
\* sampleProgram has returned a candidate.
C6_Witness ==
    /\ ret.op = "sampleProgram"
    /\ ret.val # <<>>
    /\ \E c \in Stored(programs) : c.finalScore <= 0
    /\ \E c \in Stored(programs) : c.finalScore > ret.val[1].finalScore

\* C7: after loadFromFile of any well-formed document (bestProgramId absent,
\* not among the programs, or naming a non-maximal program) getBestProgram()
\* returns a candidate of maximal finalScore, also after further addProgram
\* calls on the loaded store.
C7_LoadedBestIsMax ==
    loaded => IsBestOf(getBestProgram(programs, bestProgramId), programs)

\* C13: the store is append-only with unique ids: every addProgram call
\* stores its candidate under an id that was not in the store, so the count
\* grows by exactly one, and across every operation each candidate stored
\* before stays retrievable by getProgram under its id, unchanged.
C13_AppendOnly ==
    [][/\ \A i \in 1..Len(programs) :
            getProgram(programs', programs[i].id) = <<programs[i]>>
       /\ nextId' # nextId =>
            /\ Len(programs') = Len(programs) + 1
            /\ ret'.val[1].id \notin Ids(programs)
            /\ getProgram(programs', ret'.val[1].id) = ret'.val
       /\ (nextId' = nextId /\ loaded' = loaded) => Len(programs') = Len(programs)
      ]_vars

\* C13 witness: three addProgram calls left three candidates under three ids.
C13_Witness ==
    /\ ret.op = "addProgram"
    /\ Len(programs) = 3
    /\ Cardinality(Ids(programs)) = 3
    /\ ~loaded

\* the positive-scoring candidates ranked above the i-th stored candidate:
\* those with a greater finalScore, and those with the same finalScore that
\* were stored earlier
RankedAbove(progs, i) ==
    {j \in 1..Len(progs) :
        /\ progs[j].finalScore > 0
        /\ \/ progs[j].finalScore > progs[i].finalScore
           \/ (progs[j].finalScore = progs[i].finalScore /\ j < i)}

\* C18: for topN >= 1 the candidates sampleProgram(topN) can return are
\* exactly the positive-scoring candidates with fewer than topN
\* positive-scoring candidates ranked above them (the first min(topN, count)
\* of the descending ranking); it returns no candidate only if there is none.
C18_SampleSetExact ==
    /\ \A topN \in {n \in TopNs : n >= 1} :
         LET top == {<<programs[i]>> : i \in {k \in 1..Len(programs) :
                        /\ programs[k].finalScore > 0
                        /\ Cardinality(RankedAbove(programs, k)) < topN}}
         IN  sampleProgram(programs, topN) = IF top = {} THEN {<<>>} ELSE top
    /\ (ret.op = "sampleProgram" /\ ret.arg >= 1 /\ ret.val # <<>>) =>
         /\ ret.val[1] \in Stored(programs)
         /\ ret.val[1].finalScore > 0
         /\ Cardinality({c \in Stored(programs) :
                           c.finalScore > ret.val[1].finalScore}) < ret.arg

\* C18 witness: of three positive-scoring candidates, sampleProgram(2)
\* returned the second of the ranking, and the third cannot be returned.
C18_Witness ==
    /\ ret.op = "sampleProgram"
    /\ ret.arg = 2
    /\ Len(programs) = 3
    /\ \A i \in 1..3 : programs[i].finalScore > 0
    /\ ret.val # <<>>
    /\ \E i \in 1..3 : /\ ret.val[1] = programs[i]
                        /\ Cardinality(RankedAbove(programs, i)) = 1
    /\ Cardinality(sampleProgram(programs, 2)) = 2

-----------------------------------------------------------------------------
(* ProgramDatabase: lineage of candidates whose parent may be missing *)

\* addProgram with any parentId the caller may hand in: none, the id of a
\* stored candidate, or an id the store does not hold
AddProgramAnyParent ==
    AddProgramWith(MaxPrograms, {<<0, 0, 1>>}, Iterations,
                   {NoId, GhostId} \cup Ids(programs), {NoFeedback})

GetLineage ==
    /\ \E id \in Ids(programs) \cup {GhostId} :
         ret' = [op |-> "getLineage", arg |-> id, val |-> getLineage(programs, id)]
    /\ UNCHANGED <<programs, bestProgramId, loaded, nextId>>
    /\ UNCHANGED <<benchVars, evalVars, copyVars, fileVars, restVars>>

NextLineage ==
    \/ AddProgramAnyParent
    \/ GetLineage

SpecLineage == InitDB /\ [][NextLineage]_vars

\* C16: for a stored candidate c, getLineage(c.id) is the parent chain,
\* oldest first: its last element is c, each element is the parent of the one
\* after it, and its first element has no parent or a parent that is not in
\* the store.
C16_LineageOldestFirst ==
    (ret.op = "getLineage" /\ ret.arg \in Ids(programs)) =>
        LET l == ret.val
        IN  /\ Len(l) >= 1
            /\ l[Len(l)] = getProgram(programs, ret.arg)[1]
            /\ \A i \in 1..(Len(l) - 1) :
                 /\ l[i + 1].parent = l[i].id
                 /\ l[i] \in Stored(programs)
            /\ l[1].parent = NoId \/ l[1].parent \notin Ids(programs)

\* C16 witness: the chain A <- B <- C, for which getLineage(C) is [A, B, C].
C16_Witness ==
    /\ ret.op = "getLineage"
    /\ Len(ret.val) = 3
    /\ ret.val[1].parent = NoId
    /\ ret.val[2].parent = ret.val[1].id
    /\ ret.val[3].parent = ret.val[2].id
    /\ ret.arg = ret.val[3].id

\* C17: getLineage returns for every id: for an id that is not in the store
\* the empty list, and for a stored candidate with an ancestor whose parent
\* is not in the store the stored candidates from that ancestor down to the
\* candidate, oldest first.
C17_DanglingStops ==
    ret.op = "getLineage" =>
        LET l == ret.val
        IN  /\ ret.arg \notin Ids(programs) => l = <<>>
            /\ \A i \in 1..Len(l) : l[i] \in Stored(programs)
            /\ ret.arg \in Ids(programs) =>
                 /\ l # <<>>
                 /\ l[Len(l)].id = ret.arg
                 /\ \A i \in 2..Len(l) : l[i].parent = l[i - 1].id

\* C17 witness: a chain of two whose oldest member names a parent that is not
\* in the store.
C17_Witness ==
    /\ ret.op = "getLineage"
    /\ Len(ret.val) = 2
    /\ ret.val[1].parent = GhostId
    /\ ret.val[2].parent = ret.val[1].id

-----------------------------------------------------------------------------
(* ProgramDatabase: filterPrograms *)

\* addProgram with scores on either side of the thresholds, iterations below,
\* in and above the range, with and without parent, with no, empty and
\* non-empty feedback
AddProgramAnyFields ==
    AddProgramWith(MaxFiltered, {<<0, 1, 1>>, <<1, 0, 1>>, <<1, 1, 0>>, <<1, 1, 1>>},
                   {0, 1, 2},
                   {NoId, GhostId}, {NoFeedback, "", "text"})

FilterPrograms ==
    /\ \E options \in FilterOptions :
         ret' = [op |-> "filterPrograms", arg |-> options,
                 val |-> filterPrograms(programs, options)]
    /\ UNCHANGED <<programs, bestProgramId, loaded, nextId>>
    /\ UNCHANGED <<benchVars, evalVars, copyVars, fileVars, restVars>>

NextFilter ==
    \/ AddProgramAnyFields
    \/ FilterPrograms

SpecFilter == InitDB /\ [][NextFilter]_vars

\* candidate c satisfies every predicate that criteria o gives
Satisfies(c, o) ==
    /\ o.minQualityScore # <<>> => c.qualityScore >= o.minQualityScore[1]
    /\ o.minEfficiencyScore # <<>> => c.efficiencyScore >= o.minEfficiencyScore[1]
    /\ o.minFinalScore # <<>> => c.finalScore >= o.minFinalScore[1]
    /\ o.iterationRange # <<>> =>
         (o.iterationRange[1] <= c.iteration /\ c.iteration <= o.iterationRange[2])
    /\ o.hasParent # <<>> => (o.hasParent[1] <=> c.parent # NoId)
    /\ o.hasFeedback # <<>> =>
         (o.hasFeedback[1] <=> c.feedback \notin {NoFeedback, ""})

-----------------------------------------------------------------------------
(* ProgramDatabase: saveToFile, then loadFromFile of the file written *)

\* await db.saveToFile(path)
SaveToFile ==
    /\ disk' = <<JsonStringify(toJSON(programs, bestProgramId))>>
    /\ saved' = <<[programs |-> programs,
                   best |-> getBestProgram(programs, bestProgramId)]>>
    /\ ret' = [op |-> "saveToFile", arg |-> 0, val |-> <<>>]
    /\ UNCHANGED <<programs, bestProgramId, loaded, nextId>>
    /\ UNCHANGED <<benchVars, evalVars, copyVars, restVars>>

\* db = await ProgramDatabase.loadFromFile(path), for the file saveToFile wrote
LoadSavedFile ==
    /\ ~loaded
    /\ disk # NoDocument
    /\ LET doc == [i \in 1..Len(disk[1].programs) |->
                      ParsedCandidate(disk[1].programs[i])]
           progs == LoadPrograms(<<>>, doc)
       IN  /\ programs' = progs
           /\ bestProgramId' = LoadedBestId(progs, disk[1].metadata.bestProgramId)
    /\ loaded' = TRUE
    /\ ret' = [op |-> "loadSavedFile", arg |-> 0, val |-> <<>>]
    /\ UNCHANGED nextId
    /\ UNCHANGED <<benchVars, evalVars, copyVars, fileVars, restVars>>

NextPersist ==
    \/ AddProgram
    \/ SaveToFile
    \/ LoadSavedFile

SpecPersist == InitDB /\ [][NextPersist]_vars

\* the instant a timestamp (a Date, or the ISO text of one) denotes
Instant(t) == t.ms

-----------------------------------------------------------------------------
(* ProgramDatabase.addProgram: the copy of the fitness argument *)

\* JSON.parse(JSON.stringify(v)) on the content of a metric object
JsonRoundTrip(v) == IF v = "NaN" THEN "null" ELSE v

\* { ...fitness, ...(fitness.performanceMetrics && { performanceMetrics:
\*   JSON.parse(JSON.stringify(fitness.performanceMetrics)) }) }: the spread
\* copies the top-level values, references included; only performanceMetrics
\* is replaced by a new object
fitnessCopy(fitness) ==
    IF fitness.performanceMetrics # NoRef
    THEN [fitness EXCEPT !.performanceMetrics = CopyRef]
    ELSE fitness

\* the heap after fitnessCopy allocated its object
fitnessCopyHeap(fitness, h) ==
    IF fitness.performanceMetrics # NoRef
    THEN [h EXCEPT ![CopyRef] = JsonRoundTrip(h[fitness.performanceMetrics])]
    ELSE h

\* what a reader of the fitness object sees
Content(fitness, h) ==
    [finalScore |-> fitness.finalScore,
     performanceMetrics |-> IF fitness.performanceMetrics = NoRef THEN "undefined"
                            ELSE h[fitness.performanceMetrics],
     details |-> IF fitness.details = NoRef THEN "undefined" ELSE h[fitness.details]]

InitCopy ==
    /\ QuietDB
    /\ QuietBench
    /\ QuietEval
    /\ QuietFile
    /\ QuietRest
    /\ heap \in [{PmRef, DetailsRef, CopyRef} -> MetricValues]
    /\ heap[CopyRef] = "1.5"
    /\ callerFitness \in [finalScore : {1, 2}, performanceMetrics : {NoRef, PmRef},
                          details : {NoRef, DetailsRef}]
    /\ storedFitness = NoFitness
    /\ storedAtAdd = <<>>

\* addProgram(solution, fitness, ...): the candidate gets the copy
AddProgramFitness ==
    /\ storedAtAdd = <<>>
    /\ storedFitness' = fitnessCopy(callerFitness)
    /\ heap' = fitnessCopyHeap(callerFitness, heap)
    /\ storedAtAdd' = <<Content(fitnessCopy(callerFitness),
                                fitnessCopyHeap(callerFitness, heap))>>
    /\ UNCHANGED callerFitness
    /\ UNCHANGED <<dbVars, benchVars, evalVars, fileVars, restVars>>

\* the caller assigns a top-level score of its fitness object
CallerSetsScore ==
    /\ \E v \in {1, 2} \ {callerFitness.finalScore} :
         callerFitness' = [callerFitness EXCEPT !.finalScore = v]
    /\ UNCHANGED <<heap, storedFitness, storedAtAdd>>
    /\ UNCHANGED <<dbVars, benchVars, evalVars, fileVars, restVars>>

\* the caller assigns inside a nested object of its fitness object
CallerSetsNested ==
    /\ \E ref \in {callerFitness.performanceMetrics, callerFitness.details} \ {NoRef},
          v \in MetricValues :
         /\ v # heap[ref]
         /\ heap' = [heap EXCEPT ![ref] = v]
    /\ UNCHANGED <<callerFitness, storedFitness, storedAtAdd>>
    /\ UNCHANGED <<dbVars, benchVars, evalVars, fileVars, restVars>>

NextCopy ==
    \/ AddProgramFitness
    \/ CallerSetsScore
    \/ CallerSetsNested

SpecCopy == InitCopy /\ [][NextCopy]_vars

\* C14: once addProgram has returned, whatever the caller assigns in its
\* fitness object (top-level scores, performanceMetrics, any other nested
\* metric), the fitness of the stored candidate reads as it did when stored.
C14_StoredFitnessImmune ==
    storedAtAdd # <<>> => Content(storedFitness, heap) = storedAtAdd[1]

-----------------------------------------------------------------------------
(* BenchmarkRunner *)

\* as metricsPath, but the clock and the random suffix coincide
metricsPath_Same(r, n) == 11

\* the metrics file of runner r's n-th evaluate call:
\* metrics-<Date.now()>-<random>.json in the working directory. Runner r's
\* target file is path r.
metricsPath(r, n) == 10 * r + n

\* backupOriginal, guarded by originalContent === null
backupOriginal(orig, file) ==
    IF orig = NullContent /\ file # NoFile THEN file ELSE orig

restoreOriginal_Never(orig, file) == file

\* restoreOriginal: the content of the target file after a successful restore
restoreOriginal(orig, file) ==
    IF orig # NullContent THEN orig ELSE file

\* the step of the finally block that threw, if any
RestoreFault(orig, restoreOk) ==
    IF orig = NullContent \/ restoreOk THEN {} ELSE {"restore"}

\* as Finally, with the value returned before the finally block has run
Finally_ReturnFirst(orig, file, outcome, restoreOk, call) ==
    /\ targetFile' = file
    /\ brOutcome' = outcome
    /\ brCall' = [call EXCEPT !.steps = @ \o <<"return", "restore">>]

\* the finally block of evaluate: restoreOriginal writes (when there is an
\* original) and the write may throw, which rejects the promise; call is the
\* record of the call up to the finally block
Finally(orig, file, outcome, restoreOk, call) ==
    IF orig = NullContent \/ restoreOk
    THEN /\ targetFile' = restoreOriginal(orig, file)
         /\ brOutcome' = outcome
         /\ brCall' = [call EXCEPT !.steps = @ \o <<"restore", "return">>]
    ELSE /\ targetFile' = file
         /\ brOutcome' = [kind |-> "rejected", passed |-> FALSE, fitness |-> ZeroFitness, time |-> <<>>]
         /\ brCall' = [call EXCEPT !.steps = @ \o <<"restore">>]

InitBench ==
    /\ QuietDB
    /\ QuietEval
    /\ QuietCopy
    /\ QuietFile
    /\ QuietRest
    /\ targetFile \in {NoFile, "orig"}
    /\ originalContent = NullContent
    /\ metricsFile = "absent"
    /\ brPc = "idle"
    /\ brPassed = FALSE
    /\ brOutcome = NoOutcome
    /\ brPre = NoFile
    /\ brOrigAtStart = NullContent
    /\ brEvals = 0
    /\ brFault = {}
    /\ brCall = [solution |-> NoFile, steps |-> <<>>, env |-> 0, paths |-> <<>>]

\* someone else creates, edits or removes the target file between two calls
ExternalChange ==
    /\ brPc = "idle"
    /\ brEvals < MaxEvals
    /\ \E c \in (Originals \cup {NoFile}) \ {targetFile} : targetFile' = c
    /\ brOutcome' = NoOutcome
    /\ UNCHANGED <<originalContent, metricsFile, brPc, brPassed, brPre,
                   brOrigAtStart, brEvals, brFault, brCall>>
    /\ UNCHANGED <<dbVars, evalVars, copyVars, fileVars, restVars>>

\* evaluate(solution) up to the await: backup, write the candidate, spawn the tests
EvaluateStart ==
    /\ brPc = "idle"
    /\ brEvals < MaxEvals
    /\ brEvals' = brEvals + 1
    /\ brPre' = targetFile
    /\ brOrigAtStart' = originalContent
    /\ originalContent' = backupOriginal(originalContent, targetFile)
    /\ brOutcome' = NoOutcome
    /\ \E solution \in Solutions :
         /\ targetFile' = solution
         /\ brPc' = "tests"
         /\ brCall' = [solution |-> solution, steps |-> <<"write", "spawn">>,
                       env |-> metricsPath(1, brEvals + 1),
                       paths |-> Append(brCall.paths, metricsPath(1, brEvals + 1))]
    /\ brFault' = {}
    /\ metricsFile' = "absent"
    /\ UNCHANGED brPassed
    /\ UNCHANGED <<dbVars, evalVars, copyVars, fileVars, restVars>>

\* evaluate(solution) when the target file exists but reading it throws in
\* backupOriginal, which runs before the try block
EvaluateBackupThrows ==
    /\ brPc = "idle"
    /\ brEvals < MaxEvals
    /\ originalContent = NullContent
    /\ targetFile # NoFile
    /\ brEvals' = brEvals + 1
    /\ brPre' = targetFile
    /\ brOrigAtStart' = originalContent
    /\ brOutcome' = [kind |-> "rejected", passed |-> FALSE, fitness |-> ZeroFitness, time |-> <<>>]
    /\ brFault' = {"backup"}
    /\ \E solution \in Solutions :
         brCall' = [solution |-> solution, steps |-> <<>>, env |-> 0,
                    paths |-> brCall.paths]
    /\ metricsFile' = "absent"
    /\ UNCHANGED <<targetFile, originalContent, brPc, brPassed>>
    /\ UNCHANGED <<dbVars, evalVars, copyVars, fileVars, restVars>>

\* evaluate(solution) when writing the candidate throws: catch, then finally
EvaluateWriteFails ==
    /\ brPc = "idle"
    /\ brEvals < MaxEvals
    /\ brEvals' = brEvals + 1
    /\ brPre' = targetFile
    /\ brOrigAtStart' = originalContent
    /\ originalContent' = backupOriginal(originalContent, targetFile)
    /\ \E solution \in Solutions, restoreOk \in BOOLEAN :
         /\ Finally(backupOriginal(originalContent, targetFile), targetFile,
                    [kind |-> "resolved", passed |-> FALSE, fitness |-> ZeroFitness, time |-> <<>>],
                    restoreOk,
                    [solution |-> solution, steps |-> <<>>, env |-> 0,
                     paths |-> Append(brCall.paths, metricsPath(1, brEvals + 1))])
         /\ brFault' = {"write"} \cup RestoreFault(
                            backupOriginal(originalContent, targetFile), restoreOk)
    /\ metricsFile' = "absent"
    /\ UNCHANGED <<brPc, brPassed>>
    /\ UNCHANGED <<dbVars, evalVars, copyVars, fileVars, restVars>>

\* evaluate(solution) when spawning the test process throws after the candidate
\* was written: catch, then finally
EvaluateSpawnThrows ==
    /\ brPc = "idle"
    /\ brEvals < MaxEvals
    /\ brEvals' = brEvals + 1
    /\ brPre' = targetFile
    /\ brOrigAtStart' = originalContent
    /\ originalContent' = backupOriginal(originalContent, targetFile)
    /\ \E solution \in Solutions, restoreOk \in BOOLEAN :
         /\ Finally(backupOriginal(originalContent, targetFile), solution,
                    [kind |-> "resolved", passed |-> FALSE, fitness |-> ZeroFitness, time |-> <<>>],
                    restoreOk,
                    [solution |-> solution, steps |-> <<"write">>, env |-> 0,
                     paths |-> Append(brCall.paths, metricsPath(1, brEvals + 1))])
         /\ brFault' = {"spawn"} \cup RestoreFault(
                            backupOriginal(originalContent, targetFile), restoreOk)
    /\ metricsFile' = "absent"
    /\ UNCHANGED <<brPc, brPassed>>
    /\ UNCHANGED <<dbVars, evalVars, copyVars, fileVars, restVars>>

\* the test environment's teardown writes the metrics file
TestEnvTeardown ==
    /\ brPc = "tests"
    /\ metricsFile = "absent"
    /\ \E m \in {"valid", "malformed"} : metricsFile' = m
    /\ UNCHANGED <<targetFile, originalContent, brPc, brPassed, brOutcome, brPre,
                   brOrigAtStart, brEvals, brFault, brCall>>
    /\ UNCHANGED <<dbVars, evalVars, copyVars, fileVars, restVars>>

\* child.on('close'): runTests resolves with code === 0
ChildClose ==
    /\ brPc = "tests"
    /\ \E code \in {0, 1} : brPassed' = (code = 0)
    /\ brPc' = "resumed"
    /\ brCall' = [brCall EXCEPT !.steps = Append(@, "exit")]
    /\ UNCHANGED <<targetFile, originalContent, metricsFile, brOutcome, brPre,
                   brOrigAtStart, brEvals, brFault>>
    /\ UNCHANGED <<dbVars, evalVars, copyVars, fileVars, restVars>>

\* child.on('error'): the test process could not be started
ChildError ==
    /\ brPc = "tests"
    /\ metricsFile = "absent"
    /\ brPassed' = FALSE
    /\ brPc' = "resumed"
    /\ brFault' = {"spawn"}
    /\ brCall' = [brCall EXCEPT !.steps = Append(@, "error")]
    /\ UNCHANGED <<targetFile, originalContent, metricsFile, brOutcome, brPre,
                   brOrigAtStart, brEvals>>
    /\ UNCHANGED <<dbVars, evalVars, copyVars, fileVars, restVars>>

\* evaluate after the await: aggregate the metrics, compute the scores, restore
EvaluateFinish ==
    /\ brPc = "resumed"
    /\ metricsFile' = IF brPassed /\ metricsFile # "absent" THEN "absent" ELSE metricsFile
    /\ \E restoreOk \in BOOLEAN, executionTime \in ExecutionTimes :
         /\ Finally(originalContent, targetFile,
                    [kind |-> "resolved", passed |-> brPassed,
                     fitness |-> FitnessOf(brPassed, executionTime),
                     time |-> <<executionTime>>],
                    restoreOk, brCall)
         /\ brFault' = brFault
                        \cup (IF brPassed /\ metricsFile = "malformed"
                              THEN {"metrics"} ELSE {})
                        \cup RestoreFault(originalContent, restoreOk)
    /\ brPc' = "idle"
    /\ UNCHANGED <<originalContent, brPassed, brPre, brOrigAtStart, brEvals>>
    /\ UNCHANGED <<dbVars, evalVars, copyVars, fileVars, restVars>>

NextBench ==
    \/ ExternalChange
    \/ EvaluateStart
    \/ EvaluateBackupThrows
    \/ EvaluateWriteFails
    \/ EvaluateSpawnThrows
    \/ TestEnvTeardown
    \/ ChildClose
    \/ ChildError
    \/ EvaluateFinish

SpecBench == InitBench /\ [][NextBench]_vars

-----------------------------------------------------------------------------
(* Properties of BenchmarkRunner *)

Settled == brPc = "idle" /\ brOutcome.kind # "none"

C32_StepsInOrder ==
    LET steps == brCall.steps
        taken == {steps[i] : i \in 1..Len(steps)}
        rank(x) == CASE x = "write" -> 1
                     [] x = "spawn" -> 2
                     [] x \in {"exit", "error"} -> 3
                     [] x = "restore" -> 4
                     [] x = "return" -> 5
    IN  /\ \A i, j \in 1..Len(steps) : i < j => rank(steps[i]) < rank(steps[j])
        /\ "spawn" \in taken =>
              /\ "write" \in taken
              /\ brCall.env = brCall.paths[Len(brCall.paths)]
              /\ \A k \in 1..(Len(brCall.paths) - 1) : brCall.paths[k] # brCall.env
        /\ ("spawn" \in taken /\ "restore" \in taken) =>
              ("exit" \in taken \/ "error" \in taken)
        /\ "return" \in taken => "restore" \in taken
        /\ ("exit" \in taken /\ "return" \in taken) =>
              steps = <<"write", "spawn", "exit", "restore", "return">>
        /\ (Settled /\ brOutcome.kind = "resolved") =>
              /\ steps[Len(steps)] = "return"
              /\ targetFile = restoreOriginal(originalContent, targetFile)
        /\ brPc \in {"tests", "resumed"} =>
              /\ targetFile = brCall.solution
              /\ "restore" \notin taken
        /\ brPc = "tests" <=>
              ("spawn" \in taken /\ "exit" \notin taken /\ "error" \notin taken)

\* C32 witness: the second call of the instance has returned after its test
\* process exited; the candidate was written over the original and the
\* original is back.
C32_Witness ==
    /\ Settled
    /\ brOutcome.kind = "resolved"
    /\ brEvals = 2
    /\ brCall.steps = <<"write", "spawn", "exit", "restore", "return">>
    /\ brCall.solution = "candB"
    /\ Len(brCall.paths) = 2
    /\ originalContent = "orig"
    /\ targetFile = "orig"

\* C37: a fitness returned by evaluate has finalScore > 0 exactly when the
\* test process exited with code 0; when the suite failed, the process could
\* not be spawned or a step threw, all three scores are 0, and a candidate
\* stored with that finalScore is never returned by sampleProgram. The store
\* is given the sign of finalScore, which is all the filter of sampleProgram
\* reads.
C37_PositiveIffPassed ==
    (Settled /\ brOutcome.kind = "resolved") =>
        LET f == brOutcome.fitness
            exitedZero == /\ \E i \in 1..Len(brCall.steps) : brCall.steps[i] = "exit"
                          /\ brPassed
            stored == <<Candidate(1, 1, 0, NoId),
                        Candidate(2, IF f.finalScore[1] > 0 THEN 1 ELSE 0, 1, 1)>>
        IN  /\ f.finalScore[2] > 0
            /\ (f.finalScore[1] > 0) <=> exitedZero
            /\ ~exitedZero =>
                  /\ f.qualityScore[1] = 0
                  /\ f.efficiencyScore[1] = 0
                  /\ f.finalScore[1] = 0
                  /\ \A topN \in TopNs : \A r \in sampleProgram(stored, topN) :
                        r = <<>> \/ r[1].id # 2

\* C37 witness: the test process ran and exited non-zero; evaluate returned a
\* fitness with finalScore 0.
C37_Witness ==
    /\ Settled
    /\ brOutcome.kind = "resolved"
    /\ brCall.steps = <<"write", "spawn", "exit", "restore", "return">>
    /\ ~brPassed
    /\ brOutcome.fitness.finalScore[1] = 0

-----------------------------------------------------------------------------
(* safeEval *)

\* what the candidate function does when the worker calls it
Behaviours ==
    {"returns",         \* returns a value
     "returnsPending",  \* returns a value, leaving a timer or handle pending
     "throwsError",     \* throw new Error("fail")
     "throwsMemory",    \* throws an Error whose message mentions the heap
     "throwsString",    \* throw "fail"
     "throwsNull",      \* throw null
     "loops",           \* never returns
     "exits0",          \* process.exit(0)
     "exits1",          \* process.exit(1)
     "crashes"}         \* the worker dies of a fatal error (out of memory)

Throwing == {"throwsError", "throwsMemory", "throwsString", "throwsNull"}

Thrown(b) ==
    CASE b = "throwsError" -> [type |-> "Error", msg |-> "fail"]
      [] b = "throwsMemory" -> [type |-> "Error", msg |-> "heap out of memory"]
      [] b = "throwsString" -> [type |-> "string", msg |-> "fail"]
      [] OTHER -> [type |-> "null", msg |-> ""]

\* error.toString()
errorToString(thrown) ==
    IF thrown.type = "Error" THEN <<"Error: ", thrown.msg>> ELSE <<thrown.msg>>

\* error.message && (error.message.includes('allocation failed') || ...)
isMemoryError(thrown) ==
    thrown.type = "Error" /\ thrown.msg \in {"heap out of memory"}

\* Candidate source text, as a sequence of tokens.  A string literal carries
\* its characters as a sequence of words; every other token is code.
Tok(kind) == [kind |-> kind, text |-> <<>>]
Str(text) == [kind |-> "string", text |-> text]

ForHeader == "for(;;)"              \* text matched by /\bfor\s*\([^;]*;[^;]*;[^\)]*\)/
LoopCounter == "{ loopIterations++; "

\* function f(x) { return "a" }
SrcPlain == <<Tok("{"), Tok("return"), Str(<<"a">>), Tok("}")>>
\* function f(x) { for (;;) { stmt } return "a" }
SrcLoop ==
    <<Tok("{"), Tok("for"), Tok("{"), Tok("stmt"), Tok("}"),
      Tok("return"), Str(<<"a">>), Tok("}")>>
\* function f(x) { for (;;) stmt; return "a" }
SrcLoopNoBrace ==
    <<Tok("{"), Tok("for"), Tok("stmt"), Tok("return"), Str(<<"a">>), Tok("}")>>
\* function f(x) { return "for(;;)" }
SrcForInString == <<Tok("{"), Tok("return"), Str(<<ForHeader>>), Tok("}")>>

Sources == {SrcPlain, SrcLoop, SrcLoopNoBrace, SrcForInString}

\* String.prototype.replace with the loop pattern on the characters of a
\* string literal: every match is followed by the inserted text
RECURSIVE ReplaceInText(_)
ReplaceInText(text) ==
    IF text = <<>> THEN <<>>
    ELSE (IF Head(text) = ForHeader THEN <<ForHeader, LoopCounter>> ELSE <<Head(text)>>)
         \o ReplaceInText(Tail(text))

\* code.replace(/\bfor.../g, match => `${match} { loopIterations++; `): the
\* pattern is applied to the whole text, inside string literals as well; in
\* code it leaves an opening brace and a statement behind the loop header
instrument(code) ==
    LET RECURSIVE Go(_)
        Go(toks) ==
            IF toks = <<>> THEN <<>>
            ELSE (CASE Head(toks).kind = "for" ->
                         <<Head(toks), Tok("{"), Tok("stmt")>>
                    [] Head(toks).kind = "string" ->
                         <<Str(ReplaceInText(Head(toks).text))>>
                    [] OTHER -> <<Head(toks)>>)
                 \o Go(Tail(toks))
    IN  Go(code)

\* new Function(code + "\nreturn f;") succeeds: the braces of the code tokens
\* are balanced
compiles(code) ==
    LET RECURSIVE Depth(_, _)
        Depth(toks, d) ==
            IF toks = <<>> THEN d
            ELSE IF d < 0 THEN d
            ELSE Depth(Tail(toks),
                       CASE Head(toks).kind = "{" -> d + 1
                         [] Head(toks).kind = "}" -> d - 1
                         [] OTHER -> d)
    IN  Depth(code, 0) = 0

\* the value the function compiled from code returns: the characters of the
\* string literals of its return statement
RECURSIVE Returned(_)
Returned(code) ==
    IF code = <<>> THEN <<>>
    ELSE (IF Head(code).kind = "string" THEN Head(code).text ELSE <<>>)
         \o Returned(Tail(code))

\* as workerResult, without the fallback to the unmodified source
workerResult_NoFallback(code, trackDetailedStats) ==
    IF ~trackDetailedStats THEN Returned(code)
    ELSE IF compiles(instrument(code)) THEN Returned(instrument(code))
    ELSE <<"SyntaxError">>

\* fnToExecute(input) in the worker
workerResult(code, trackDetailedStats) ==
    IF trackDetailedStats /\ compiles(instrument(code))
    THEN Returned(instrument(code))
    ELSE Returned(code)

\* the events a worker sends to its parent
Message(success, result, error, mem) ==
    [type |-> "message", success |-> success, result |-> result, error |-> error,
     memoryLimitExceeded |-> mem, code |-> 0]
ErrorEvent(error) ==
    [type |-> "error", success |-> FALSE, result |-> <<>>, error |-> error,
     memoryLimitExceeded |-> FALSE, code |-> 0]
ExitEvent(code) ==
    [type |-> "exit", success |-> FALSE, result |-> <<>>, error |-> <<>>,
     memoryLimitExceeded |-> FALSE, code |-> code]

\* the events the worker script produces once the candidate was called, and the
\* state the worker is left in: the try block posts a success message, the
\* catch block reads error.message and posts a failure message
WorkerScript(b, code, trackDetailedStats) ==
    CASE b = "returns" ->
           [events |-> <<Message(TRUE, workerResult(code, trackDetailedStats),
                                 <<>>, FALSE)>>,
            worker |-> "finishing"]
      [] b = "returnsPending" ->
           [events |-> <<Message(TRUE, workerResult(code, trackDetailedStats),
                                 <<>>, FALSE)>>,
            worker |-> "lingering"]
      [] b \in {"throwsError", "throwsMemory", "throwsString"} ->
           [events |-> <<Message(FALSE, <<>>, errorToString(Thrown(b)),
                                 isMemoryError(Thrown(b)))>>,
            worker |-> "finishing"]
      [] b = "throwsNull" ->
           [events |-> <<ErrorEvent(<<"TypeError: ", "Cannot read properties of null">>),
                         ExitEvent(1)>>,
            worker |-> "exited"]
      [] b = "exits0" -> [events |-> <<ExitEvent(0)>>, worker |-> "exited"]
      [] b = "exits1" -> [events |-> <<ExitEvent(1)>>, worker |-> "exited"]
      [] OTHER ->
           [events |-> <<ErrorEvent(<<"Error: ", "Worker terminated due to reaching memory limit">>),
                         ExitEvent(1)>>,
            worker |-> "exited"]

Settle_LastWins(outcome, new) == new

\* resolve / reject of the promise: only the first call has an effect
Settle(outcome, new) ==
    IF outcome.state = "pending" THEN new ELSE outcome

Resolved(result) == [state |-> "resolved", reason |-> "Success", text |-> result]
Rejected(reason, text) == [state |-> "rejected", reason |-> reason, text |-> text]

clearTimeout_Never(timer) == timer

clearTimeout(timer) == IF timer = "armed" THEN "cleared" ELSE timer

\* if (cleanupFiles) { try { unlinkSync(workerPath) } catch {} }
unlink(k) == IF k.cleanupFiles THEN FALSE ELSE k.file

\* as randomUUID, but every call gets the same name
randomUUID_Same(c) == 1

\* the name of call c's temporary script: alphaevolve-worker-<randomUUID()>.js,
\* a fresh name for every call
randomUUID(c) == c

\* what call c's unlinkSync(workerPath) does to the scripts of the other calls:
\* a script stored under the same path is gone too
unlinkSync(cs, c) ==
    [d \in DOMAIN cs |->
        IF d # c /\ cs[c].cleanupFiles /\ cs[d].workerPath = cs[c].workerPath
        THEN [cs[d] EXCEPT !.file = FALSE]
        ELSE cs[d]]

ExitRejects_Never(code) == FALSE

\* the exit handler rejects for code !== 0 && code !== null
ExitRejects(code) == code # 0

\* the rejection made for a failure message
MessageError(m) ==
    IF m.memoryLimitExceeded
    THEN Rejected("MemoryLimitExceeded", <<"Memory limit exceeded: ">> \o m.error)
    ELSE Rejected("RuntimeError", m.error)

InitEval ==
    /\ QuietDB
    /\ QuietBench
    /\ QuietEval
    /\ QuietCopy
    /\ QuietFile
    /\ QuietRest

\* safeEval(...): the script is written, the worker created, the timer set and
\* the handlers registered
SafeEval(c) ==
    /\ ~calls[c].started
    /\ \E b \in Behaviours, cleanup \in BOOLEAN, code \in Sources, track \in BOOLEAN :
         /\ b \notin {"returns", "throwsError"} => (code = SrcPlain /\ track)
         /\ calls' = [calls EXCEPT ![c] =
                    [@ EXCEPT !.started = TRUE, !.behaviour = b,
                              !.workerPath = randomUUID(c),
                              !.code = code, !.trackDetailedStats = track,
                              !.cleanupFiles = cleanup, !.file = TRUE,
                              !.timer = "armed", !.worker = "running"]]
    /\ UNCHANGED <<dbVars, benchVars, copyVars, fileVars, restVars>>

\* safeEval(...) when writeFileSync throws
SafeEvalWriteFails(c) ==
    /\ ~calls[c].started
    /\ \E cleanup \in BOOLEAN :
         calls' = [calls EXCEPT ![c] =
                    [@ EXCEPT !.started = TRUE, !.cleanupFiles = cleanup,
                              !.workerPath = randomUUID(c),
                              !.outcome = Settle(@, Rejected("SetupFailure", <<>>))]]
    /\ UNCHANGED <<dbVars, benchVars, copyVars, fileVars, restVars>>

\* safeEval(...) when new Worker(...) throws (e.g. workerData cannot be cloned)
SafeEvalWorkerFails(c) ==
    /\ ~calls[c].started
    /\ \E cleanup \in BOOLEAN :
         calls' = [calls EXCEPT ![c] =
                    [@ EXCEPT !.started = TRUE, !.cleanupFiles = cleanup,
                              !.workerPath = randomUUID(c),
                              !.file = TRUE,
                              !.outcome = Settle(@, Rejected("SetupFailure", <<>>))]]
    /\ UNCHANGED <<dbVars, benchVars, copyVars, fileVars, restVars>>

\* the worker thread runs the script to the end of its try / catch
WorkerRuns(c) ==
    /\ calls[c].worker = "running"
    /\ calls[c].behaviour # "loops"
    /\ LET w == WorkerScript(calls[c].behaviour, calls[c].code,
                              calls[c].trackDetailedStats)
       IN  calls' = [calls EXCEPT ![c] =
                      [@ EXCEPT !.queue = @ \o w.events, !.worker = w.worker,
                                !.posted = (w.events[1].type = "message")]]
    /\ UNCHANGED <<dbVars, benchVars, copyVars, fileVars, restVars>>

\* the worker's event loop is empty: the thread exits with code 0
WorkerExits(c) ==
    /\ calls[c].worker = "finishing"
    /\ calls' = [calls EXCEPT ![c] =
                  [@ EXCEPT !.queue = Append(@, ExitEvent(0)), !.worker = "exited"]]
    /\ UNCHANGED <<dbVars, benchVars, copyVars, fileVars, restVars>>

\* the setTimeout callback
OnTimeout(c) ==
    /\ calls[c].timer = "armed"
    /\ LET k == calls[c]
           alive == k.worker \in {"running", "finishing", "lingering"}
       IN  calls' = unlinkSync([calls EXCEPT ![c] =
                      [k EXCEPT !.timer = "fired",
                                !.terminateCalled = TRUE,
                                !.worker = IF alive THEN "exited" ELSE @,
                                !.queue = IF alive THEN Append(@, ExitEvent(1)) ELSE @,
                                !.outcome = Settle(@, Rejected("Timeout",
                                                <<"Evaluation timed out after ">>)),
                                !.file = unlink(k)]], c)
    /\ UNCHANGED <<dbVars, benchVars, copyVars, fileVars, restVars>>

\* worker.on('message')
OnMessage(c) ==
    /\ calls[c].queue # <<>>
    /\ Head(calls[c].queue).type = "message"
    /\ LET k == calls[c]
           m == Head(k.queue)
       IN  calls' = unlinkSync([calls EXCEPT ![c] =
                      [k EXCEPT !.queue = Tail(@),
                                !.lateMsg = (k.timer = "fired"),
                                !.timer = clearTimeout(@),
                                !.file = unlink(k),
                                !.outcome = Settle(@, IF m.success THEN Resolved(m.result)
                                                      ELSE MessageError(m))]], c)
    /\ UNCHANGED <<dbVars, benchVars, copyVars, fileVars, restVars>>

\* worker.on('error')
OnError(c) ==
    /\ calls[c].queue # <<>>
    /\ Head(calls[c].queue).type = "error"
    /\ LET k == calls[c]
           m == Head(k.queue)
       IN  calls' = unlinkSync([calls EXCEPT ![c] =
                      [k EXCEPT !.queue = Tail(@),
                                !.timer = clearTimeout(@),
                                !.file = unlink(k),
                                !.outcome = Settle(@, Rejected("WorkerError", m.error))]], c)
    /\ UNCHANGED <<dbVars, benchVars, copyVars, fileVars, restVars>>

\* worker.on('exit')
OnExit(c) ==
    /\ calls[c].queue # <<>>
    /\ Head(calls[c].queue).type = "exit"
    /\ LET k == calls[c]
           m == Head(k.queue)
       IN  calls' = unlinkSync([calls EXCEPT ![c] =
                      [k EXCEPT !.queue = Tail(@),
                                !.timer = clearTimeout(@),
                                !.file = unlink(k),
                                !.outcome = IF ExitRejects(m.code)
                                            THEN Settle(@, Rejected("WorkerExit",
                                                   <<"Worker stopped with exit code ">>))
                                            ELSE @]], c)
    /\ UNCHANGED <<dbVars, benchVars, copyVars, fileVars, restVars>>

EvalStep(cs) ==
    \E c \in cs :
        \/ SafeEval(c)
        \/ SafeEvalWriteFails(c)
        \/ SafeEvalWorkerFails(c)
        \/ WorkerRuns(c)
        \/ WorkerExits(c)
        \/ OnTimeout(c)
        \/ OnMessage(c)
        \/ OnError(c)
        \/ OnExit(c)

NextEval == EvalStep(Calls)

SpecEval == InitEval /\ [][NextEval]_vars

-----------------------------------------------------------------------------
(* Properties of safeEval *)

\* nothing more will happen for call c: no event waits for its handler, the
\* timer is not running and the worker will not produce another event
Quiescent(c) ==
    /\ calls[c].started
    /\ calls[c].queue = <<>>
    /\ calls[c].timer # "armed"
    /\ calls[c].worker \in {"none", "exited", "lingering"}

Contains(text, word) == \E i \in 1..Len(text) : text[i] = word

CrashReasons == {"WorkerExit", "WorkerError"}
MessageReasons == {"RuntimeError", "MemoryLimitExceeded"}

\* C3: every safeEval call settles: once the completion message has been
\* handled or the timeout has fired, and nothing more can happen, the promise
\* is resolved or rejected, whatever the worker did (exit code 0 without a
\* message included).
C3_AlwaysSettles ==
    \A c \in Calls : Quiescent(c) => calls[c].outcome.state # "pending"

\* C4: when the timeout timer fires, safeEval rejects with the timed-out
\* failure and has called worker.terminate(); a completion message handled
\* after the timer fired never turns the outcome into a success.
C4_TimeoutWins ==
    \A c \in Calls :
        calls[c].timer = "fired" =>
            /\ calls[c].outcome.state = "rejected"
            /\ calls[c].outcome.reason = "Timeout"
            /\ calls[c].terminateCalled

\* C4 witness: the worker posted a success message, the timer fired first, and
\* the message was handled afterwards.
C4_Witness ==
    \E c \in Calls :
        /\ calls[c].timer = "fired"
        /\ calls[c].behaviour = "returns"
        /\ calls[c].lateMsg
        /\ calls[c].outcome.reason = "Timeout"

\* C33: the outcome of a safeEval call is decided by the first event handled
\* among the completion message, the timeout, a worker error and a non-zero
\* worker exit, and no later event changes it; once the completion message has
\* been handled with the timer still armed the timer never fires, so a call
\* that resolved is never timed out and its worker is never terminated by the
\* timer.
C33_FirstEventDecides ==
    [][\A c \in Calls :
         LET k == calls[c]
             n == calls'[c]
             handled == k.queue # <<>> /\ n.queue = Tail(k.queue)
             m == Head(k.queue)
         IN  /\ k.outcome.state # "pending" => n.outcome = k.outcome
             /\ (k.outcome.state = "pending" /\ k.timer = "armed" /\ n.timer = "fired")
                  => n.outcome.reason = "Timeout"
             /\ (k.outcome.state = "pending" /\ handled /\ m.type = "message")
                  => n.outcome.state = IF m.success THEN "resolved" ELSE "rejected"
             /\ (k.outcome.state = "pending" /\ handled /\ m.type = "error")
                  => n.outcome.reason = "WorkerError"
             /\ (k.outcome.state = "pending" /\ handled /\ m.type = "exit" /\ m.code # 0)
                  => n.outcome.reason = "WorkerExit"
             /\ (k.timer = "cleared" \/ (handled /\ k.timer = "armed"))
                  => n.timer = "cleared"
             /\ n.outcome.state = "resolved"
                  => (n.timer = "cleared" /\ ~n.terminateCalled)
      ]_vars

\* C33 witness: the worker returned a value and stays alive on a pending
\* handle; the message was handled, the call resolved, the timer is cancelled
\* and terminate() was never called.
C33_Witness ==
    \E c \in Calls :
        /\ calls[c].behaviour = "returnsPending"
        /\ calls[c].outcome.state = "resolved"
        /\ calls[c].worker = "lingering"
        /\ calls[c].queue = <<>>
        /\ calls[c].timer = "cleared"
        /\ ~calls[c].terminateCalled

\* C5: on every path by which a call ends (setup failure after the script was
\* written included) the temporary worker script no longer exists once the
\* outcome is observable.
C5_TempFileDeleted ==
    \A c \in Calls :
        (calls[c].outcome.state # "pending" /\ calls[c].cleanupFiles) => ~calls[c].file

\* C8: if the worker exits abnormally of its own accord without having posted
\* a message, and that is handled before the timer fires, safeEval rejects
\* with a worker-crash failure, which is neither the Timeout failure nor a
\* RuntimeError reported by message.
C8_CrashRejects ==
    \A c \in Calls :
        (/\ calls[c].behaviour \in {"exits1", "crashes", "throwsNull"}
         /\ calls[c].worker = "exited"
         /\ ~calls[c].terminateCalled
         /\ calls[c].queue = <<>>)
        => /\ calls[c].outcome.state = "rejected"
           /\ calls[c].outcome.reason \in CrashReasons
           /\ calls[c].outcome.reason \notin MessageReasons \cup {"Timeout"}
           /\ calls[c].outcome.text # <<"Evaluation timed out after ">>
           /\ ~calls[c].posted

\* C8 witness: the worker called process.exit(1) and the exit was handled.
C8_Witness ==
    \E c \in Calls :
        /\ calls[c].behaviour = "exits1"
        /\ calls[c].queue = <<>>
        /\ calls[c].worker = "exited"
        /\ calls[c].timer = "cleared"
        /\ calls[c].outcome.reason = "WorkerExit"

\* C9: after the outcome of a call has been delivered and nothing more can
\* happen, no worker of that call is alive, even if the candidate left
\* pending work in the worker.
C9_WorkerTornDown ==
    \A c \in Calls :
        (Quiescent(c) /\ calls[c].outcome.state # "pending")
        => calls[c].worker \in {"none", "exited"}

\* C10: if the candidate function throws (and the timer has not fired),
\* safeEval rejects through a failure message, not through a crash, with an
\* error whose message contains the thrown error's message.
C10_ThrowIsFailureMessage ==
    \A c \in Calls :
        (/\ calls[c].behaviour \in Throwing
         /\ calls[c].outcome.state # "pending"
         /\ calls[c].timer # "fired")
        => /\ calls[c].outcome.state = "rejected"
           /\ calls[c].outcome.reason \in MessageReasons
           /\ Contains(calls[c].outcome.text, Thrown(calls[c].behaviour).msg)

\* C11: when the candidate function returns and the timer has not fired,
\* safeEval resolves with the value a direct call of the function compiled
\* from the same source returns, with trackDetailedStats on or off.
C11_ResultEqualsDirect ==
    \A c \in Calls :
        (/\ calls[c].behaviour = "returns"
         /\ calls[c].posted
         /\ calls[c].outcome.state # "pending"
         /\ calls[c].timer # "fired")
        => /\ calls[c].outcome.state = "resolved"
           /\ calls[c].outcome.text = Returned(calls[c].code)

\* C38: when the instrumented rewrite of the source does not compile the
\* worker runs the unmodified source: the worker sends what it sends with
\* trackDetailedStats off, a returning function resolves the call with the
\* value of the unmodified function, a throwing one rejects it with that
\* function's failure, and nothing but the timeout can reject it otherwise.
C38_InstrumentationAdvisory ==
    \A c \in Calls :
        LET k == calls[c]
        IN  (/\ k.posted
             /\ k.trackDetailedStats
             /\ ~compiles(instrument(k.code)))
            => /\ WorkerScript(k.behaviour, k.code, TRUE)
                    = WorkerScript(k.behaviour, k.code, FALSE)
               /\ k.outcome.state = "resolved" =>
                     (k.behaviour = "returns" /\ k.outcome.text = Returned(k.code))
               /\ k.outcome.state = "rejected" =>
                     \/ k.outcome.reason = "Timeout"
                     \/ /\ k.behaviour = "throwsError"
                        /\ k.outcome.reason = "RuntimeError"
                        /\ Contains(k.outcome.text, Thrown(k.behaviour).msg)
               /\ (k.outcome.state # "pending" /\ k.timer # "fired") =>
                     (k.outcome.state = "resolved" <=> k.behaviour = "returns")

\* C38 witness: a function with a loop, whose rewrite leaves a brace open,
\* evaluated with trackDetailedStats on: the call resolved with the value the
\* unmodified function returns.
C38_Witness ==
    \E c \in Calls :
        /\ calls[c].behaviour = "returns"
        /\ calls[c].code = SrcLoop
        /\ calls[c].trackDetailedStats
        /\ ~compiles(instrument(calls[c].code))
        /\ calls[c].outcome.state = "resolved"
        /\ calls[c].outcome.text = Returned(SrcLoop)

\* C20: a runner captures the original content only during the first
\* evaluate call on the instance, and a captured original never changes in
\* any later step.
C20_CapturedOnceAtFirstCall ==
    [][/\ originalContent' # originalContent => brEvals = 0
       /\ originalContent # NullContent => originalContent' = originalContent
      ]_vars

\* C21: once evaluate has returned, the metrics file named for that call does
\* not exist, whether the tests passed, failed after the test environment
\* wrote the file, the file did not parse, or a step threw.
C21_MetricsFileDeleted ==
    Settled => metricsFile = "absent"

\* evaluate returned the scores computed from the test result
Scored == Settled /\ brOutcome.kind = "resolved" /\ brOutcome.time # <<>>

\* C22 (as claimed): qualityScore is 1 if the test process exited zero and 0
\* otherwise, efficiencyScore is 1000 / (1000 + executionTime) and lies in
\* (0, 1] for every outcome, and finalScore = 0.7 * qualityScore +
\* 0.3 * efficiencyScore.
C22_ScoresEveryOutcome ==
    Scored =>
        LET q == brOutcome.fitness.qualityScore
            e == brOutcome.fitness.efficiencyScore
            f == brOutcome.fitness.finalScore
            t == brOutcome.time[1]
        IN  /\ q = IF brOutcome.passed THEN <<1, 1>> ELSE <<0, 1>>
            /\ e[1] * (1000 + t) = 1000 * e[2]
            /\ 0 < e[1] /\ e[1] <= e[2]
            /\ 10 * f[1] * q[2] * e[2] = f[2] * (7 * q[1] * e[2] + 3 * e[1] * q[2])

\* C22 (amended): qualityScore is 1 if the test process exited zero and 0
\* otherwise; efficiencyScore is 1000 / (1000 + executionTime), in (0, 1] and
\* strictly decreasing in the time, if the tests passed and 0 if they did
\* not; finalScore = 0.7 * qualityScore + 0.3 * efficiencyScore.
C22_ScoresWhenPassed ==
    /\ Scored =>
         LET q == brOutcome.fitness.qualityScore
             e == brOutcome.fitness.efficiencyScore
             f == brOutcome.fitness.finalScore
             t == brOutcome.time[1]
         IN  /\ q = IF brOutcome.passed THEN <<1, 1>> ELSE <<0, 1>>
             /\ e[2] > 0 /\ f[2] > 0
             /\ brOutcome.passed =>
                  /\ e[1] * (1000 + t) = 1000 * e[2]
                  /\ 0 < e[1] /\ e[1] <= e[2]
             /\ ~brOutcome.passed => e[1] = 0
             /\ 10 * f[1] * q[2] * e[2] = f[2] * (7 * q[1] * e[2] + 3 * e[1] * q[2])
    /\ \A t1, t2 \in ExecutionTimes :
         t1 < t2 => efficiencyScore(TRUE, t1)[1] * efficiencyScore(TRUE, t2)[2]
                    > efficiencyScore(TRUE, t2)[1] * efficiencyScore(TRUE, t1)[2]

\* C22 witness: the tests passed after 1000 ms: efficiencyScore is 1/2 and
\* finalScore is 0.85.
C22_Witness ==
    /\ Scored
    /\ brOutcome.passed
    /\ brOutcome.time = <<1000>>
    /\ brOutcome.fitness.efficiencyScore[1] * 2 = brOutcome.fitness.efficiencyScore[2]
    /\ brOutcome.fitness.finalScore[1] * 100 = 85 * brOutcome.fitness.finalScore[2]

\* C12: evaluate never rejects: whenever its promise settles it is resolved,
\* and if the test process could not be spawned or a step (writing the
\* candidate, reading the metrics, restoring the target file) threw, the
\* fitness it resolves with has qualityScore = efficiencyScore = finalScore = 0.
C12_NeverRejects ==
    Settled =>
        /\ brOutcome.kind = "resolved"
        /\ brFault # {} => brOutcome.fitness = ZeroFitness

-----------------------------------------------------------------------------
(* BenchmarkRunner.evaluate: aggregation of the per-test metrics *)

\* the entries AlphaEnvironment writes for a test: gcStats, the heap after the
\* test (a positive byte count) and the heap delta over the test
Metrics ==
    [gcStats : [count : {0, 1}, totalTime : {0, 2}],
     memoryUsage : [end : [heapUsed : {1, 2}], delta : [heapUsed : {-1, 5}]]]

\* as forEachMetric, but a later entry with an equal heapUsed replaces the peak
RECURSIVE forEachMetric_LastOnTies(_, _)
forEachMetric_LastOnTies(data, acc) ==
    IF data = <<>> THEN acc
    ELSE LET m == Head(data)
             peak == m.memoryUsage.end.heapUsed >= acc.maxHeapUsed
         IN  forEachMetric_LastOnTies(Tail(data),
                 [totalGcCount |-> acc.totalGcCount + m.gcStats.count,
                  totalGcTime |-> acc.totalGcTime + m.gcStats.totalTime,
                  maxHeapUsed |-> IF peak THEN m.memoryUsage.end.heapUsed
                                  ELSE acc.maxHeapUsed,
                  aggregatedDelta |-> IF peak THEN m.memoryUsage.delta
                                      ELSE acc.aggregatedDelta])

\* Object.values(metricsData).forEach(m => ...): the sums of the gc figures
\* and the delta of the entry that raised the peak heapUsed
RECURSIVE forEachMetric(_, _)
forEachMetric(data, acc) ==
    IF data = <<>> THEN acc
    ELSE LET m == Head(data)
             peak == m.memoryUsage.end.heapUsed > acc.maxHeapUsed
             hasDelta == m.memoryUsage.delta # <<>>      \* if (m.memoryUsage.delta)
         IN  forEachMetric(Tail(data),
                 [totalGcCount |-> acc.totalGcCount + m.gcStats.count,
                  totalGcTime |-> acc.totalGcTime + m.gcStats.totalTime,
                  maxHeapUsed |-> IF peak THEN m.memoryUsage.end.heapUsed
                                  ELSE acc.maxHeapUsed,
                  aggregatedDelta |-> IF peak /\ hasDelta THEN m.memoryUsage.delta
                                      ELSE acc.aggregatedDelta])

\* a passing run whose metrics file parsed into any list of entries
InitMetrics ==
    /\ QuietDB
    /\ QuietBench
    /\ QuietEval
    /\ QuietCopy
    /\ QuietFile
    /\ metricsData \in UNION {[1..n -> Metrics] : n \in 0..MaxTests}
    /\ detailedMetrics = <<>>
    /\ runners = <<>>
    /\ fs = <<>>
    /\ run = <<>>
    /\ llm = <<>>

\* evaluate, step 4: if (passed && fs.existsSync(metricsPath)) { ... }
AggregateMetrics ==
    /\ detailedMetrics = <<>>
    /\ LET a == forEachMetric(metricsData,
                    [totalGcCount |-> 0, totalGcTime |-> 0, maxHeapUsed |-> 0,
                     aggregatedDelta |-> [heapUsed |-> 0]])
       IN  detailedMetrics' =
               <<[gcStats |-> [count |-> a.totalGcCount, totalTime |-> a.totalGcTime],
                  memoryUsage |-> [after |-> [heapUsed |-> a.maxHeapUsed],
                                   delta |-> a.aggregatedDelta]]>>
    /\ UNCHANGED <<metricsData, runners, fs, run, llm>>
    /\ UNCHANGED <<dbVars, benchVars, evalVars, copyVars, fileVars>>

SpecMetrics == InitMetrics /\ [][AggregateMetrics]_vars

\* C23: when the tests passed and the metrics file parsed, gcStats.count and
\* gcStats.totalTime are the sums of the per-test values over all entries, and
\* the memory delta is the delta of the entry with the highest post-run
\* heapUsed, the first such entry on ties, with memoryUsage.after.heapUsed
\* equal to that maximum.
C23_AggregatesAllEntries ==
    detailedMetrics # <<>> =>
        LET d == detailedMetrics[1]
            n == Len(metricsData)
            count[i \in 0..n] ==
                IF i = 0 THEN 0 ELSE count[i - 1] + metricsData[i].gcStats.count
            totalTime[i \in 0..n] ==
                IF i = 0 THEN 0 ELSE totalTime[i - 1] + metricsData[i].gcStats.totalTime
            heapUsed(i) == metricsData[i].memoryUsage.end.heapUsed
        IN  /\ d.gcStats.count = count[n]
            /\ d.gcStats.totalTime = totalTime[n]
            /\ \A i \in 1..n :
                 (/\ \A j \in 1..n : heapUsed(j) <= heapUsed(i)
                  /\ \A j \in 1..(i - 1) : heapUsed(j) < heapUsed(i))
                 => /\ d.memoryUsage.after.heapUsed = heapUsed(i)
                    /\ d.memoryUsage.delta = metricsData[i].memoryUsage.delta

\* C23 witness: two tests with the same peak heapUsed and different deltas
\* and gc figures; the first one's delta is reported.
C23_Witness ==
    /\ detailedMetrics # <<>>
    /\ Len(metricsData) = 2
    /\ metricsData[1].memoryUsage.end.heapUsed = metricsData[2].memoryUsage.end.heapUsed
    /\ metricsData[1].memoryUsage.delta # metricsData[2].memoryUsage.delta
    /\ metricsData[1].gcStats.count = 1 /\ metricsData[2].gcStats.count = 1
    /\ detailedMetrics[1].gcStats.count = 2
    /\ detailedMetrics[1].memoryUsage.delta = metricsData[1].memoryUsage.delta

-----------------------------------------------------------------------------
(* safeEval: two calls in flight together *)

InitConcurrent ==
    /\ QuietDB
    /\ QuietBench
    /\ QuietCopy
    /\ QuietFile
    /\ QuietRest
    /\ calls = [c \in 1..2 |-> NewCall]

SpecConcurrent == InitConcurrent /\ [][EvalStep(1..2)]_vars

\* C24: concurrent safeEval calls are independent: each call has its own
\* uniquely named temporary script, and no event of one call (message,
\* timeout, error, exit, cleanup) changes the outcome of another call or
\* deletes another call's script: every step changes the state of one call
\* at most.
C24_CallsIndependent ==
    [][/\ \A c, d \in DOMAIN calls :
            (c # d /\ calls'[c].started /\ calls'[d].started)
            => calls'[c].workerPath # calls'[d].workerPath
       /\ \A c, d \in DOMAIN calls :
            c # d => (calls'[c] = calls[c] \/ calls'[d] = calls[d])]_vars

\* C24 witness: two calls were in flight together; one has timed out and its
\* script is deleted, the other is still pending with its script in place.
C24_Witness ==
    /\ DOMAIN calls = 1..2
    /\ calls[1].outcome.reason = "Timeout"
    /\ calls[1].cleanupFiles /\ ~calls[1].file
    /\ calls[2].started
    /\ calls[2].outcome = Pending
    /\ calls[2].worker = "running"
    /\ calls[2].file

-----------------------------------------------------------------------------
(* Two BenchmarkRunner instances with different target files *)

\* two runners constructed on two existing target files
InitPair ==
    /\ QuietDB
    /\ QuietBench
    /\ QuietEval
    /\ QuietCopy
    /\ QuietFile
    /\ metricsData = <<>>
    /\ detailedMetrics = <<>>
    /\ run = <<>>
    /\ llm = <<>>
    /\ runners = [r \in 1..2 |->
                    [originalContent |-> NullContent, pc |-> "idle", evals |-> 0,
                     solution |-> "", seen |-> "", passed |-> FALSE,
                     metricsPath |-> 0, read |-> "", pre |-> ""]]
    /\ \E o1, o2 \in Originals :
         fs = [p \in {1, 2} \cup {10 * r + n : r \in 1..2, n \in 1..MaxEvals} |->
                 IF p = 1 THEN o1 ELSE IF p = 2 THEN o2 ELSE NoFile]

\* evaluate(solution) up to the await: backup, metricsPath, write the candidate,
\* spawn the test process
PairEvaluate(r) ==
    /\ runners[r].pc = "idle"
    /\ runners[r].evals < MaxEvals
    /\ \E solution \in Solutions :
         /\ runners' = [runners EXCEPT ![r] =
                [@ EXCEPT !.originalContent = backupOriginal(@, fs[r]),
                          !.pre = IF runners[r].evals = 0 THEN fs[r] ELSE @,
                          !.evals = @ + 1,
                          !.metricsPath = metricsPath(r, runners[r].evals + 1),
                          !.solution = solution, !.seen = "", !.read = "",
                          !.pc = "tests"]]
         /\ fs' = [fs EXCEPT ![r] = solution]
    /\ UNCHANGED <<metricsData, detailedMetrics, run, llm>>
    /\ UNCHANGED <<dbVars, benchVars, evalVars, copyVars, fileVars>>

\* the test process of runner r: the suite loads the target file, the test
\* environment writes the metrics to ALPHA_METRICS_PATH, the process closes
PairTests(r) ==
    /\ runners[r].pc = "tests"
    /\ \E code \in {0, 1} :
         runners' = [runners EXCEPT ![r] =
                [@ EXCEPT !.seen = fs[r], !.passed = (code = 0), !.pc = "resumed"]]
    /\ fs' = [fs EXCEPT ![runners[r].metricsPath] =
                 IF r = 1 THEN "metrics of 1" ELSE "metrics of 2"]
    /\ UNCHANGED <<metricsData, detailedMetrics, run, llm>>
    /\ UNCHANGED <<dbVars, benchVars, evalVars, copyVars, fileVars>>

\* evaluate after the await: read and unlink the metrics file of a passing
\* run, restore the target file
PairResume(r) ==
    /\ runners[r].pc = "resumed"
    /\ LET k == runners[r]
           reads == k.passed /\ fs[k.metricsPath] # NoFile
       IN  /\ runners' = [runners EXCEPT ![r] =
                  [@ EXCEPT !.read = IF reads THEN fs[k.metricsPath] ELSE "",
                            !.pc = "idle"]]
           /\ fs' = [fs EXCEPT ![k.metricsPath] = IF reads THEN NoFile ELSE @,
                               ![r] = restoreOriginal(k.originalContent, @)]
    /\ UNCHANGED <<metricsData, detailedMetrics, run, llm>>
    /\ UNCHANGED <<dbVars, benchVars, evalVars, copyVars, fileVars>>

SpecPair ==
    InitPair /\ [][\E r \in 1..2 : PairEvaluate(r) \/ PairTests(r) \/ PairResume(r)]_vars

\* C25: two runners with different target files evaluate concurrently without
\* interference: each call's test process sees its own candidate in its own
\* target file, each call reads only its own metrics file, and once both
\* have completed each target file holds its own original content.
C25_RunnersIndependent ==
    \A r \in DOMAIN runners :
        /\ runners[r].pc = "resumed" => runners[r].seen = runners[r].solution
        /\ runners[r].read # ""
             => runners[r].read = (IF r = 1 THEN "metrics of 1" ELSE "metrics of 2")
        /\ (\A q \in DOMAIN runners : runners[q].pc = "idle" /\ runners[q].evals > 0)
             => fs[r] = runners[r].pre

\* C25 witness: both calls have completed after running side by side on
\* different candidates and different originals; both passed and read metrics.
C25_Witness ==
    /\ DOMAIN runners = 1..2
    /\ \A r \in 1..2 : runners[r].pc = "idle" /\ runners[r].evals = 1
    /\ \A r \in 1..2 : runners[r].read # "" /\ runners[r].seen = runners[r].solution
    /\ runners[1].solution # runners[2].solution
    /\ fs[1] = "orig" /\ fs[2] = "edited"

-----------------------------------------------------------------------------
(* ProgramDatabase.saveToFile / loadFromFile: files of any content *)

\* what loadFromFile may find at the path: no readable file, text that is not
\* JSON, the JSON text null, or a JSON object whose version is absent, older
\* ("1.0") or current, whose programs key is absent, a string or an array of
\* candidates with distinct ids, and whose metadata is absent or an object
Files ==
    {[kind |-> k, version |-> <<>>, programs |-> [type |-> "absent", items |-> <<>>],
      metadata |-> <<>>] : k \in {"unreadable", "garbage", "null"}}
    \cup
    {[kind |-> "object", version |-> v, programs |-> p, metadata |-> m] :
        v \in {<<>>, <<"1.0">>, <<"1.1">>},
        p \in {[type |-> t, items |-> <<>>] : t \in {"absent", "string"}}
              \cup {[type |-> "array", items |-> d] :
                      d \in {doc \in UNION {[1..n -> {ParsedCandidate(JsonCandidate(
                                                Candidate(id, 1, 0, parent))) :
                                                  id \in DocIds,
                                                  parent \in {NoId} \cup DocIds}]
                                            : n \in 0..MaxDocLen} :
                               \A i, j \in DOMAIN doc : doc[i].id = doc[j].id => i = j}},
        m \in {<<>>} \cup {<<[bestProgramId |-> b]>> : b \in DocBestIds}}

\* as loadFromFile, but a document without the current version is refused
loadFromFile_Strict(file) ==
    IF file.kind # "object" \/ file.version # <<"1.1">>
    THEN [state |-> "rejected", db |-> <<>>]
    ELSE [state |-> "resolved",
          db |-> <<[programs |-> LoadPrograms(<<>>, file.programs.items),
                    metadata |-> file.metadata,
                    bestProgramId |-> NoId]>>]

\* loadFromFile(filePath): readFile, JSON.parse and reading parsed.version
\* throw for an unreadable file, for text that is not JSON and for null; any
\* other document gives a store
loadFromFile(file) ==
    IF file.kind \in {"unreadable", "garbage", "null"}
    THEN [state |-> "rejected", db |-> <<>>]
    ELSE LET progs == IF file.programs.type = "array"       \* Array.isArray
                      THEN LoadPrograms(<<>>, file.programs.items)
                      ELSE <<>>
             docBest == IF file.metadata = <<>> THEN NoId
                        ELSE file.metadata[1].bestProgramId
         IN  [state |-> "resolved",
              db |-> <<[programs |-> progs,
                        metadata |-> file.metadata,      \* parsed.metadata || {}
                        bestProgramId |-> LoadedBestId(progs, docBest)]>>]

\* a store in use, empty or holding a candidate, and a file of any content
InitFiles ==
    /\ \E held \in {<<>>, <<Candidate(1, 1, 0, NoId)>>} :
         /\ programs = held
         /\ bestProgramId = (IF held = <<>> THEN NoId ELSE 1)
         /\ nextId = Len(held) + 1
    /\ loaded = FALSE
    /\ ret = [op |-> "none", arg |-> 0, val |-> <<>>]
    /\ QuietBench
    /\ QuietEval
    /\ QuietCopy
    /\ QuietRest
    /\ disk \in {<<f>> : f \in Files}
    /\ saved = <<>>

\* await ProgramDatabase.loadFromFile(path), called while a store is in use:
\* the static method builds a new store or rejects
LoadFile ==
    /\ ret' = [op |-> "loadFromFile", arg |-> 0, val |-> <<loadFromFile(disk[1])>>]
    /\ saved' = <<[programs |-> programs, best |-> bestProgramId]>>
    /\ UNCHANGED <<programs, bestProgramId, loaded, nextId, disk>>
    /\ UNCHANGED <<benchVars, evalVars, copyVars, restVars>>

\* await db.saveToFile(path) when mkdirSync or writeFile throws: the catch
\* block rethrows
SaveToFileFails ==
    /\ ret' = [op |-> "saveToFile", arg |-> 0,
               val |-> <<[state |-> "rejected", db |-> <<>>]>>]
    /\ saved' = <<[programs |-> programs, best |-> bestProgramId]>>
    /\ UNCHANGED <<programs, bestProgramId, loaded, nextId, disk>>
    /\ UNCHANGED <<benchVars, evalVars, copyVars, restVars>>

\* getLineage(id) on the store loadFromFile gave, one pass of
\* while (currentId) at a time: the call, then per pass the lookup, the break
\* or the unshift and the move to candidate.parent
GetLineageLoaded ==
    /\ ret.val # <<>>
    /\ \/ /\ ret.op = "loadFromFile"
          /\ ret.val[1].state = "resolved"
          /\ \E id \in Ids(ret.val[1].db[1].programs) :
                ret' = [op |-> "getLineage", arg |-> id,
                        val |-> <<[state |-> "running", db |-> ret.val[1].db,
                                   currentId |-> id, lineage |-> <<>>]>>]
       \/ /\ ret.op = "getLineage"
          /\ ret.val[1].state = "running"
          /\ Len(ret.val[1].lineage) < MaxLineage
          /\ LET w == ret.val[1]
                 candidate == getProgram(w.db[1].programs, w.currentId)
             IN  ret' = [ret EXCEPT !.val =
                          IF w.currentId = NoId \/ candidate = <<>>
                          THEN <<[w EXCEPT !.state = "returned"]>>
                          ELSE <<[w EXCEPT !.lineage = candidate \o @,
                                           !.currentId = candidate[1].parent]>>]
    /\ UNCHANGED <<programs, bestProgramId, loaded, nextId, disk, saved>>
    /\ UNCHANGED <<benchVars, evalVars, copyVars, restVars>>

SpecFiles == InitFiles /\ [][LoadFile \/ SaveToFileFails \/ GetLineageLoaded]_vars

\* C36: getLineage(id) terminates with a finite list in which no candidate
\* appears twice, on every store, those built by loadFromFile from a document
\* with arbitrary parent references included: the list under construction
\* never holds a candidate twice and is never longer than the store.
C36_LineageTerminates ==
    ret.op = "getLineage" =>
        LET w == ret.val[1]
        IN  /\ \A a, b \in 1..Len(w.lineage) : a # b => w.lineage[a] # w.lineage[b]
            /\ Len(w.lineage) <= Len(w.db[1].programs)
            /\ w.state = "returned" => w.lineage = getLineage(w.db[1].programs, ret.arg)

\* C26: persistence failures are surfaced: loadFromFile rejects, and returns
\* no store, when the file cannot be read or is not a well-formed persisted
\* document (an object with a programs array); saveToFile rejects when the
\* directory or file cannot be written; neither changes the in-memory store.
C26_FailuresSurface ==
    ret.op \in {"loadFromFile", "saveToFile"} =>
        /\ (ret.op = "saveToFile"
             \/ disk[1].kind # "object"
             \/ disk[1].programs.type # "array")
            => ret.val[1].state = "rejected"
        /\ saved[1].programs = programs
        /\ saved[1].best = bestProgramId

\* C27: loadFromFile accepts a document whose version tag is missing or older
\* than the current one: it does not reject, and the loaded store holds
\* exactly the document's programs, in their order, and its metadata.
C27_OldVersionLoads ==
    (/\ ret.op = "loadFromFile"
     /\ disk[1].kind = "object"
     /\ disk[1].programs.type = "array"
     /\ disk[1].version # <<"1.1">>)
    => /\ ret.val[1].state = "resolved"
       /\ getAllPrograms(ret.val[1].db[1].programs) = disk[1].programs.items
       /\ ret.val[1].db[1].metadata = disk[1].metadata

\* C27 witness: a document without a version tag, with two programs and a
\* metadata object, has been loaded.
C27_Witness ==
    /\ ret.op = "loadFromFile"
    /\ disk[1].kind = "object"
    /\ disk[1].version = <<>>
    /\ disk[1].programs.type = "array"
    /\ Len(disk[1].programs.items) = 2
    /\ disk[1].metadata # <<>>
    /\ ret.val[1].state = "resolved"
    /\ Len(ret.val[1].db[1].programs) = 2

-----------------------------------------------------------------------------
(* AlphaRevolve.run *)

\* as runIteration, but a rejected generator or a throwing fitness function
\* is rethrown
runIteration_Rethrow(event) ==
    IF event = "candidate" THEN "candidate"
    ELSE IF event \in {"generatorRejects", "fitnessThrows"} THEN "throws"
    ELSE "null"

\* runIteration: the new candidate, or null when the generated code is empty
\* or invalid and (through the catch block) when the generator rejects or the
\* fitness function throws
runIteration(event) ==
    IF event = "candidate" THEN "candidate" ELSE "null"

\* as addProgram, but the candidate is stored with the parent's iteration number
addProgram_ParentIteration(fitness, it, parent) ==
    LET cand == CandidateSolution(nextId, "s", fitness[1], fitness[2], fitness[3],
                                  IF it = 0 THEN 0 ELSE it - 1, parent, NoFeedback)
        progs == MapSet(programs, cand)
    IN  /\ programs' = progs
        /\ bestProgramId' = IF ShouldUpdateBest(progs, bestProgramId, fitness[3])
                            THEN cand.id ELSE bestProgramId
        /\ ret' = [op |-> "addProgram", arg |-> 0, val |-> <<cand>>]
        /\ nextId' = nextId + 1
        /\ UNCHANGED loaded

\* this.evaluationDatabase.addProgram(solution, fitnessCopy, iteration, parentId)
addProgram(fitness, it, parent) ==
    LET cand == CandidateSolution(nextId, "s", fitness[1], fitness[2], fitness[3],
                                  it, parent, NoFeedback)
        progs == MapSet(programs, cand)
    IN  /\ programs' = progs
        /\ bestProgramId' = IF ShouldUpdateBest(progs, bestProgramId, fitness[3])
                            THEN cand.id ELSE bestProgramId
        /\ ret' = [op |-> "addProgram", arg |-> 0, val |-> <<cand>>]
        /\ nextId' = nextId + 1
        /\ UNCHANGED loaded

\* new AlphaRevolve(config, ..., options): maxRetries is options.maxRetries when
\* the caller gives it (0 included, through ...options) and 3 otherwise
InitRun ==
    /\ QuietDB
    /\ QuietBench
    /\ QuietEval
    /\ QuietCopy
    /\ QuietFile
    /\ metricsData = <<>>
    /\ detailedMetrics = <<>>
    /\ runners = <<>>
    /\ fs = <<>>
    /\ llm = <<>>
    /\ \E n \in 1..MaxIterations, m \in (0..MaxRetries) \cup {3} :
         run = [pc |-> "start", iterations |-> n, maxRetries |-> m, i |-> 0,
                retries |-> 0, child |-> FALSE, parent |-> NoId,
                outcome |-> "pending", best |-> NoId, done |-> <<>>,
                derived |-> <<>>]

\* run(), up to the loop: evaluate and store the initial solution; if the
\* fitness function throws, the catch block rethrows
RunStart ==
    /\ run.pc = "start"
    /\ \/ \E score \in Scores :
            /\ addProgram(<<0, 0, score>>, 0, NoId)
            /\ run' = [run EXCEPT !.pc = "loop"]
       \/ /\ run' = [run EXCEPT !.pc = "done", !.outcome = "rejected"]
          /\ UNCHANGED dbVars
    /\ UNCHANGED <<metricsData, detailedMetrics, runners, fs, llm>>
    /\ UNCHANGED <<benchVars, evalVars, copyVars, fileVars>>

\* one pass of while (!childCandidate && retries < maxRetries): an attempt of
\* iteration i on the best candidate taken at the head of the iteration.
\* runIteration builds the prompt from PromptBuilder's own
\* sampleProgram(3) draw (config.initialSolution when the draw is null);
\* run.derived keeps, for each stored child, the recorded parent and the
\* candidate whose solution the prompt held
RunIteration ==
    /\ run.pc = "loop"
    /\ ~run.child
    /\ run.retries < run.maxRetries
    /\ LET parentCandidate == IF run.retries = 0
                              THEN getBestProgram(programs, bestProgramId)[1].id
                              ELSE run.parent
       IN  \E event \in {"generatorRejects", "emptyCode", "invalidCode",
                          "fitnessThrows", "candidate"}, score \in Scores,
              sampled \in sampleProgram(programs, 3) :
             LET childCandidate == runIteration(event)
                 prompted == IF sampled = <<>> THEN <<>> ELSE <<sampled[1].id>>
             IN  \/ /\ childCandidate = "candidate"
                    /\ addProgram(<<0, 0, score>>, run.i + 1, parentCandidate)
                    /\ run' = [run EXCEPT !.child = TRUE, !.retries = @ + 1,
                                          !.parent = parentCandidate,
                                          !.derived = Append(@,
                                              [child |-> nextId,
                                               parent |-> parentCandidate,
                                               prompted |-> prompted])]
                 \/ /\ childCandidate = "null"
                    /\ run' = [run EXCEPT !.retries = @ + 1,
                                          !.parent = parentCandidate]
                    /\ UNCHANGED dbVars
                 \/ /\ childCandidate = "throws"
                    /\ run' = [run EXCEPT !.pc = "done", !.outcome = "rejected"]
                    /\ UNCHANGED dbVars
    /\ UNCHANGED <<metricsData, detailedMetrics, runners, fs, llm>>
    /\ UNCHANGED <<benchVars, evalVars, copyVars, fileVars>>

\* the while loop is left: save if configured (failures are logged), then the
\* next iteration or, after the last one, getBestProgram and the result
RunAdvance ==
    /\ run.pc = "loop"
    /\ run.child \/ run.retries >= run.maxRetries
    /\ LET done == Append(run.done, [attempts |-> run.retries, child |-> run.child])
           bestCandidate == getBestProgram(programs, bestProgramId)
       IN  run' = IF run.i + 1 < run.iterations
                  THEN [run EXCEPT !.i = @ + 1, !.retries = 0, !.child = FALSE,
                                   !.done = done]
                  ELSE [run EXCEPT !.i = @ + 1, !.done = done, !.pc = "done",
                                   !.outcome = IF bestCandidate = <<>> THEN "rejected"
                                               ELSE "resolved",
                                   !.best = IF bestCandidate = <<>> THEN NoId
                                            ELSE bestCandidate[1].id]
    /\ UNCHANGED dbVars
    /\ UNCHANGED <<metricsData, detailedMetrics, runners, fs, llm>>
    /\ UNCHANGED <<benchVars, evalVars, copyVars, fileVars>>

SpecRun == InitRun /\ [][RunStart \/ RunIteration \/ RunAdvance]_vars

\* C28: a failure inside an iteration (the generator rejecting, empty or
\* invalid generated code, the fitness function throwing) on every attempt
\* does not make run() reject: once the initial solution is stored the run
\* never rejects, it goes through all its iterations and resolves with a
\* candidate whose finalScore is the highest among those stored.
C28_IterationFailuresAbsorbed ==
    /\ run.outcome = "rejected" => programs = <<>>
    /\ run.outcome = "resolved" =>
         /\ Len(run.done) = run.iterations
         /\ run.best \in Ids(programs)
         /\ \A j \in 1..Len(programs) :
              programs[j].finalScore <= getProgram(programs, run.best)[1].finalScore

\* C28 witness: every attempt of the first iteration failed, the second
\* iteration stored a candidate, and the run resolved with it.
C28_Witness ==
    /\ run.outcome = "resolved"
    /\ Len(run.done) = 2
    /\ run.done[1].attempts >= 2 /\ ~run.done[1].child
    /\ run.done[2].child
    /\ getProgram(programs, run.best)[1].iteration = 2

\* C34: in a run the initial candidate is stored once, with iteration 0 and no
\* parent; each loop index i stores at most one candidate, with iteration
\* i + 1 and as parent a stored candidate of strictly smaller iteration; so the
\* store holds at most 1 + iterations candidates and the lineage of every
\* stored candidate is finite and starts at the initial candidate.
C34_LineageWellFounded ==
    LET n == Len(programs)
    IN  /\ run.pc = "start" => n = 0
        /\ n <= 1 + run.iterations
        /\ n >= 1 => (programs[1].iteration = 0 /\ programs[1].parent = NoId)
        /\ \A j, k \in 1..n : j # k => programs[j].iteration # programs[k].iteration
        /\ \A j \in 2..n :
              /\ programs[j].iteration >= 1
              /\ programs[j].iteration <= run.i + 1
              /\ programs[j].iteration <= run.iterations
              /\ \E k \in 1..n :
                    /\ programs[k].id = programs[j].parent
                    /\ programs[k].iteration < programs[j].iteration
        /\ \A j \in 1..n :
              LET lineage == getLineage(programs, programs[j].id)
              IN  /\ Len(lineage) \in 1..n
                  /\ lineage[1] = programs[1]
                  /\ lineage[Len(lineage)] = programs[j]
                  /\ \A a, b \in 1..Len(lineage) : a # b => lineage[a] # lineage[b]

\* C34 witness: a run of two iterations has resolved, each iteration stored a
\* candidate, and the second is a child of the first, whose parent is the
\* initial candidate.
C34_Witness ==
    /\ run.outcome = "resolved"
    /\ run.iterations = 2
    /\ Len(programs) = 3
    /\ programs[2].parent = programs[1].id
    /\ programs[3].parent = programs[2].id
    /\ Len(getLineage(programs, programs[3].id)) = 3

\* C35: in each iteration the candidate recorded as the parent of the newly
\* stored candidate is the candidate sampleProgram gave for the prompt of that
\* iteration, whose solution the generation prompt held (when the draw was
\* null the prompt held the configured initial solution, which is allowed
\* here).
C35_ParentIsPrompted ==
    \A k \in 1..Len(run.derived) :
        LET d == run.derived[k]
        IN  /\ getProgram(programs, d.child) # <<>>
            /\ getProgram(programs, d.child)[1].parent = d.parent
            /\ d.prompted # <<>> => d.prompted[1] = d.parent

\* C29: maxRetries is the number of retries: an iteration whose attempts all
\* fail is attempted exactly 1 + maxRetries times before the run moves on, and
\* retrying stops at the first attempt that yields a candidate.
C29_OnePlusMaxRetriesAttempts ==
    \A k \in 1..Len(run.done) :
        /\ ~run.done[k].child => run.done[k].attempts = 1 + run.maxRetries
        /\ run.done[k].child => run.done[k].attempts <= 1 + run.maxRetries
        /\ Cardinality({j \in 1..Len(programs) : programs[j].iteration = k}) <= 1

-----------------------------------------------------------------------------
(* LlmService.generateCode *)

isRetryableError_Always(error) == TRUE

\* isRetryableError: the message contains one of retryableErrors, or the
\* status code starts with one. A message is modelled by the listed fragments
\* that occur in it, a status by its digits.
isRetryableError(error) ==
    LET retryableErrors ==
            {"rate_limit_exceeded", "429", "timeout", "server_error", "5", "connection"}
        digits(r) == IF r = "429" THEN <<4, 2, 9>> ELSE IF r = "5" THEN <<5>> ELSE <<>>
        startsWith(status, r) ==
            /\ digits(r) # <<>>
            /\ Len(digits(r)) <= Len(status)
            /\ SubSeq(status, 1, Len(digits(r))) = digits(r)
    IN  \E r \in retryableErrors : r \in error.message \/ startsWith(error.status, r)

\* new LlmService(baseURL, apiKey, retryOptions): the defaults (3 retries,
\* 1000 ms, factor 2) or the caller's values
InitLlm ==
    /\ QuietDB
    /\ QuietBench
    /\ QuietEval
    /\ QuietCopy
    /\ QuietFile
    /\ metricsData = <<>>
    /\ detailedMetrics = <<>>
    /\ runners = <<>>
    /\ fs = <<>>
    /\ run = <<>>
    /\ \E m \in (0..MaxRetries) \cup {3}, d \in {1000, 10}, f \in {2, 3} :
         llm = [pc |-> "request", maxRetries |-> m, initialDelayMs |-> d,
                backoffFactor |-> f, retries |-> 0, delay |-> d, requests |-> 0,
                waits |-> <<>>, errors |-> <<>>, outcome |-> "pending"]

\* one pass of the while (true) loop up to the delay: the request answers
\* with a usable text, or it fails (a short or empty answer is thrown as an
\* error too) and the catch block rethrows or prepares a retry
LlmRequest ==
    /\ llm.pc = "request"
    /\ \E answer \in {[ok |-> TRUE, message |-> {}, status |-> <<>>]}
                      \cup {[ok |-> FALSE, message |-> msg, status |-> st] :
                              msg \in {{}, {"rate_limit_exceeded"}, {"timeout"}},
                              st \in {<<>>, <<4, 0, 0>>, <<4, 2, 9>>, <<5, 0, 3>>}} :
         IF answer.ok
         THEN llm' = [llm EXCEPT !.requests = @ + 1, !.pc = "done",
                                 !.outcome = "resolved"]
         ELSE IF llm.retries >= llm.maxRetries \/ ~isRetryableError(answer)
              THEN llm' = [llm EXCEPT !.requests = @ + 1, !.pc = "done",
                                      !.errors = Append(@, answer),
                                      !.outcome = "thrown"]
              ELSE llm' = [llm EXCEPT !.requests = @ + 1, !.pc = "delay",
                                      !.errors = Append(@, answer),
                                      !.retries = @ + 1]
    /\ UNCHANGED <<metricsData, detailedMetrics, runners, fs, run>>
    /\ UNCHANGED <<dbVars, benchVars, evalVars, copyVars, fileVars>>

\* await this.delay(delay); delay *= backoffFactor
LlmDelay ==
    /\ llm.pc = "delay"
    /\ llm' = [llm EXCEPT !.waits = Append(@, llm.delay),
                          !.delay = @ * llm.backoffFactor,
                          !.pc = "request"]
    /\ UNCHANGED <<metricsData, detailedMetrics, runners, fs, run>>
    /\ UNCHANGED <<dbVars, benchVars, evalVars, copyVars, fileVars>>

SpecLlm == InitLlm /\ [][LlmRequest \/ LlmDelay]_vars

\* C30: generateCode retries a failed request only when the error is
\* retryable, at most maxRetries times (at most maxRetries + 1 requests),
\* waits initialDelayMs before the first retry and backoffFactor times the
\* previous delay before each further one, and throws on a non-retryable
\* error or when the retries are used up; a call that is not finished can
\* always take its next step.
C30_BoundedBackoffRetries ==
    LET Retryable(e) ==
            \/ e.message # {}
            \/ e.status # <<>> /\ (e.status[1] = 5 \/ e.status = <<4, 2, 9>>)
    IN  /\ llm.retries <= llm.maxRetries
        /\ llm.requests <= llm.maxRetries + 1
        /\ \A k \in 1..llm.retries : Retryable(llm.errors[k])
        /\ \A k \in 1..Len(llm.waits) :
             llm.waits[k] = IF k = 1 THEN llm.initialDelayMs
                            ELSE llm.backoffFactor * llm.waits[k - 1]
        /\ llm.pc = "request" => Len(llm.waits) = llm.retries
        /\ llm.outcome = "thrown" =>
             /\ llm.pc = "done"
             /\ \/ ~Retryable(llm.errors[Len(llm.errors)])
                \/ llm.retries = llm.maxRetries
        /\ llm.outcome = "resolved" => llm.pc = "done"
        /\ llm.pc # "done" => ENABLED (LlmRequest \/ LlmDelay)

\* C30 witness: with maxRetries 2 and the default delays, three requests
\* failed with retryable errors; the call waited 1000 ms and 2000 ms and threw.
C30_Witness ==
    /\ llm.maxRetries = 2
    /\ llm.outcome = "thrown"
    /\ llm.requests = 3
    /\ llm.waits = <<1000, 2000>>
    /\ llm.errors[3].status = <<5, 0, 3>>

====
